---------------------------- MODULE Spec2Model ----------------------------
(***************************************************************************)
(* A model of the deseresp RESP3 codec: the two Readers (RefReader over a  *)
(* slice, ReadReader over an io::Read), the Deserializer driver with its   *)
(* skip_attribute flag, the tag-wrapper types of types.rs and the          *)
(* Serializer.  Bytes are their ASCII / UTF-8 codes.  A decode or encode   *)
(* call is one action; the recursive descent of the driver is a set of     *)
(* mutually recursive operators that thread the decoder state.             *)
(***************************************************************************)
EXTENDS Integers, Sequences, FiniteSets, TLC

VARIABLES
    op,       \* the last call made: "init", "from_slice", "from_read", "serialize", "round_trip_*"
    attr,     \* bytes of the attribute prefix the input starts with (<<>> if none)
    frame,    \* bytes of the frame that follows the prefix
    trailing, \* bytes after the frame; the input buffer is attr \o frame \o trailing
    target,   \* the type T requested from the Deserializer
    res,      \* outcome of the decode: [ok, v, err, d] with d the final Deserializer
    value,    \* the value handed to the Serializer
    out       \* outcome of the encode: [ok, err, bytes]

vars == <<op, attr, frame, trailing, target, res, value, out>>

(***************************************************************************)
(* Bounds of the model.                                                    *)
(***************************************************************************)
\* width in bits of the modelled i64 / u64 / usize (TLC integers are 32-bit)
IntBits == 6
\* largest mantissa of the sampled finite doubles
MaxMant == 12
\* largest number of fractional digits of the sampled finite doubles
MaxScale == 1
\* longest string of the sampled UTF-8 strings (in units of alphabet symbols)
MaxStrLen == 2
MaxCount == 3

(***************************************************************************)
(* Bytes that the code names.                                              *)
(***************************************************************************)
CR == 13
LF == 10
CRLF == <<CR, LF>>
Digit0 == 48
Digit9 == 57
Minus == 45
MarkSimpleString == 43
MarkSimpleError == 45
MarkBlobString == 36
MarkBlobError == 33
MarkVerbatim == 61
MarkBool == 35
MarkNumber == 58
MarkDouble == 44
MarkArray == 42
MarkSet == 126
MarkMap == 37
MarkAttribute == 124
MarkNull == 95
MarkPush == 62
LetterT == 116
LetterF == 102
LetterI == 105
LetterN == 110
Dot == 46
INF == <<LetterI, LetterN, LetterF>>

SIMPLE_ERROR_TOKEN == "$SimpleError"
BLOB_ERROR_TOKEN == "$BulkError"
SIMPLE_STRING_TOKEN == "$SimpleString"
BLOB_STRING_TOKEN == "$BulkString"
ATTRIBUTE_SKIP_TOKEN == "$AttributeSkip"
WITH_ATTRIBUTE_TOKEN == "$WithAttribute"
PUSH_TOKEN == "$Push"
\* de.rs matches crate::types::ATTRIBUTE_TOKEN, a name types.rs no longer
\* defines; it is the sentinel of WithAttribute.
ATTRIBUTE_TOKEN == "$WithAttribute"

\* i64::MAX, u64::MAX and usize::MAX at the modelled width
I64_MAX == 2 ^ (IntBits - 1) - 1
I64_MIN == - (2 ^ (IntBits - 1))
U64_MAX == 2 ^ IntBits - 1

IsDigit(b) == b >= Digit0 /\ b <= Digit9

(***************************************************************************)
(* Error (error.rs) and Result.                                            *)
(***************************************************************************)
NoErr == [kind |-> "none", msg |-> "", n |-> 0]
Error_eof == [kind |-> "EOF", msg |-> "", n |-> 0]
Error_expected_marker(m) == [kind |-> "ExpectedMarker", msg |-> m, n |-> 0]
Error_expected_value(m) == [kind |-> "ExpectedValue", msg |-> m, n |-> 0]
Error_unexpected_value(m) == [kind |-> "UnexpectedValue", msg |-> m, n |-> 0]
Error_utf8(k) == [kind |-> "UTF8", msg |-> "", n |-> k]
Error_overflow == [kind |-> "Parse", msg |-> "", n |-> 0]
Error_parse == [kind |-> "Parse", msg |-> "", n |-> 0]
Error_nan == [kind |-> "NaN", msg |-> "", n |-> 0]
Error_custom(m) == [kind |-> "Custom", msg |-> m, n |-> 0]

NoVal == [t |-> "none"]
Ok(d, v) == [ok |-> TRUE, d |-> d, v |-> v, err |-> NoErr]
Err(d, e) == [ok |-> FALSE, d |-> d, v |-> NoVal, err |-> e]
\* a panic unwinds out of the call: no Result is returned; every caller
\* passes it on as it passes an Err on
Panic(d, m) == [ok |-> FALSE, d |-> d, v |-> NoVal,
                err |-> [kind |-> "panic", msg |-> m, n |-> 0]]

\* Option<u8>: None is <<>>, Some(b) is <<b>>
None == <<>>
Some(b) == <<b>>

(***************************************************************************)
(* The Deserializer with its Reader.  kind = "slice": RefReader, src is    *)
(* the caller's buffer and pos the cursor (buf = src[pos+1..]).            *)
(* kind = "read": ReadReader, pos counts the bytes pulled from the source, *)
(* ch is the pending byte.  log records every Reference a read_slice /     *)
(* read_slice_until returned and every visitor method call.                *)
(***************************************************************************)
Deserializer_from_slice(bytes) ==
    [kind |-> "slice", src |-> bytes, pos |-> 0, ch |-> None,
     skip_attribute |-> TRUE, log |-> <<>>]

Deserializer_from_read(bytes) ==
    [kind |-> "read", src |-> bytes, pos |-> 0, ch |-> None,
     skip_attribute |-> TRUE, log |-> <<>>]

consumed_bytes(d) == d.pos

Logged(d, ev) == [d EXCEPT !.log = Append(@, ev)]

\* free function read_u8 of ReadReader: pull the next byte into ch
ReadReader_read_u8(d) ==
    IF d.pos < Len(d.src)
    THEN Ok([d EXCEPT !.pos = @ + 1, !.ch = Some(d.src[d.pos + 1])], Some(d.src[d.pos + 1]))
    ELSE Ok([d EXCEPT !.ch = None], None)

ReadReader_peek_u8(d) ==
    IF d.ch # None THEN Ok(d, d.ch) ELSE ReadReader_read_u8(d)

RefReader_peek_u8(d) ==
    IF d.pos < Len(d.src) THEN Ok(d, Some(d.src[d.pos + 1])) ELSE Ok(d, None)

RefReader_read_u8(d) ==
    IF d.pos >= Len(d.src) THEN Ok(d, None)
    ELSE Ok([d EXCEPT !.pos = @ + 1], Some(d.src[d.pos + 1]))

peek_u8(d) == IF d.kind = "slice" THEN RefReader_peek_u8(d) ELSE ReadReader_peek_u8(d)
read_u8(d) == IF d.kind = "slice" THEN RefReader_read_u8(d) ELSE ReadReader_read_u8(d)

StartsWith(s, p, at) ==
    /\ at + Len(p) <= Len(s)
    /\ \A i \in 1..Len(p) : s[at + i] = p[i]

read_slice_ident(d, ident) ==
    IF StartsWith(d.src, ident, d.pos)
    THEN Ok([d EXCEPT !.pos = @ + Len(ident)], NoVal)
    ELSE Err(d, Error_expected_value("ident"))

RECURSIVE read_reader_ident_from(_, _, _)
read_reader_ident_from(d, ident, i) ==
    IF i > Len(ident) THEN Ok(d, NoVal)
    ELSE LET p == ReadReader_peek_u8(d) IN
         IF p.v = None THEN Err(p.d, Error_eof)
         ELSE IF p.v[1] # ident[i] THEN Err(p.d, Error_expected_value("ident"))
         ELSE read_reader_ident_from(ReadReader_read_u8(p.d).d, ident, i + 1)

read_reader_ident(d, ident) == read_reader_ident_from(d, ident, 1)

read_ident(d, ident) ==
    IF d.kind = "slice" THEN read_slice_ident(d, ident) ELSE read_reader_ident(d, ident)

read_crlf(d) == read_ident(d, CRLF)

(***************************************************************************)
(* Reference<[u8]> and the slice-returning reads.                          *)
(* Borrowed: the range [from, to) of the caller's buffer.                  *)
(* Copied: the scratch buffer of the ReadReader, [0, len).                 *)
(***************************************************************************)
Reference_Borrowed(d, from, to) ==
    [variant |-> "Borrowed", bytes |-> SubSeq(d.src, from + 1, to), from |-> from, to |-> to]

Reference_Copied(buf) ==
    [variant |-> "Copied", bytes |-> buf, from |-> 0, to |-> Len(buf)]

RefEvent(name, r) == [ev |-> name, variant |-> r.variant, from |-> r.from, to |-> r.to]

\* the Reference a of a slice read, once the trailing CRLF c is dealt with
Referenced(c, name, a) ==
    IF ~c.ok THEN c ELSE Ok(Logged(c.d, RefEvent(name, a)), a)

\* if consume_crlf { read_slice_ident(&mut self.buf, b"\r\n")? }
RefReader_consume_crlf(d, consume_crlf) ==
    IF consume_crlf THEN read_slice_ident(d, CRLF) ELSE Ok(d, NoVal)

\* RefReader::read_slice handing out a copy instead of a range of the input
RefReader_read_slice_copied(d, len, consume_crlf) ==
    IF len > Len(d.src) - d.pos THEN Err(d, Error_eof)
    ELSE Referenced(RefReader_consume_crlf([d EXCEPT !.pos = @ + len], consume_crlf),
                    "read_slice",
                    Reference_Copied(SubSeq(d.src, d.pos + 1, d.pos + len)))

RefReader_read_slice(d, len, consume_crlf) ==
    IF len > Len(d.src) - d.pos THEN Err(d, Error_eof)
    ELSE Referenced(RefReader_consume_crlf([d EXCEPT !.pos = @ + len], consume_crlf),
                    "read_slice",
                    Reference_Borrowed(d, d.pos, d.pos + len))

RECURSIVE ReadReader_fill(_, _, _)
\* the for-loop of ReadReader::read_slice: count bytes still to copy into buf
ReadReader_fill(d, buf, count) ==
    IF count = 0 THEN Ok(d, buf)
    ELSE LET p == ReadReader_peek_u8(d) IN
         IF p.v = None THEN Err(p.d, Error_eof)
         ELSE ReadReader_fill(ReadReader_read_u8(p.d).d, Append(buf, p.v[1]), count - 1)

\* if consume_crlf { read_reader_ident(&mut self.read, &mut self.ch, b"\r\n")? }
ReadReader_consume_crlf(d, consume_crlf) ==
    IF consume_crlf THEN read_reader_ident(d, CRLF) ELSE Ok(d, NoVal)

\* the scratch buffer f filled, handed out as Reference::Copied
ReadReader_copied(f, name, consume_crlf) ==
    IF ~f.ok THEN f
    ELSE Referenced(ReadReader_consume_crlf(f.d, consume_crlf), name, Reference_Copied(f.v))

ReadReader_read_slice(d, len, consume_crlf) ==
    ReadReader_copied(ReadReader_fill(d, <<>>, len), "read_slice", consume_crlf)

read_slice(d, len, consume_crlf) ==
    IF d.kind = "slice" THEN RefReader_read_slice(d, len, consume_crlf)
    ELSE ReadReader_read_slice(d, len, consume_crlf)

\* buf.iter().position(until_fn): index of the first byte of src at or after
\* at that satisfies until_fn; -1 when there is none.  The closure until_fn
\* is the set of the bytes it accepts.
Position(src, at, until_fn) ==
    LET hits == {i \in at..Len(src) : src[i] \in until_fn} IN
    IF hits = {} THEN -1 ELSE CHOOSE i \in hits : \A j \in hits : i <= j

\* the slice of buf before index at, or EOF when no byte satisfied until_fn
RefReader_slice_before(d, at, consume_crlf) ==
    IF at = -1 THEN Err(d, Error_eof)
    ELSE Referenced(RefReader_consume_crlf([d EXCEPT !.pos = at - 1], consume_crlf),
                    "read_slice_until",
                    Reference_Borrowed(d, d.pos, at - 1))

RefReader_read_slice_until(d, until_fn, consume_crlf) ==
    RefReader_slice_before(d, Position(d.src, d.pos + 1, until_fn), consume_crlf)

\* what lies ahead of a ReadReader: the pending byte p.v, then the unread source
Ahead(p) == p.v \o SubSeq(p.d.src, p.d.pos + 1, Len(p.d.src))

\* the loop of ReadReader::read_slice_until copies, byte by byte, what lies
\* ahead up to index at, the first byte that satisfies until_fn, and fails
\* at the end of the source when there is none
ReadReader_copy_before(p, at, consume_crlf) ==
    IF at = -1
    THEN Err(ReadReader_peek_u8(ReadReader_fill(p.d, <<>>, Len(Ahead(p))).d).d, Error_eof)
    ELSE ReadReader_copied(ReadReader_fill(p.d, <<>>, at - 1), "read_slice_until",
                           consume_crlf)

ReadReader_read_slice_until(d, until_fn, consume_crlf) ==
    LET p == ReadReader_peek_u8(d) IN
    ReadReader_copy_before(p, Position(Ahead(p), 1, until_fn), consume_crlf)

read_slice_until(d, until_fn, consume_crlf) ==
    IF d.kind = "slice" THEN RefReader_read_slice_until(d, until_fn, consume_crlf)
    ELSE ReadReader_read_slice_until(d, until_fn, consume_crlf)

(***************************************************************************)
(* The numeric readers of the Reader trait.  An operator whose first       *)
(* parameter is a result (p, q, r, ...) is the code that follows the call  *)
(* that produced it.                                                       *)
(***************************************************************************)
\* value? : the error of r, or r with the value v
Map(r, v) == IF ~r.ok THEN r ELSE Ok(r.d, v)

\* the value read, taken without the CR-LF after it
Crlf_unread(r) == r

\* let v = r?; self.reader.read_crlf()?; v
Crlf(r) == IF ~r.ok THEN r ELSE Map(read_crlf(r.d), r.v)

RECURSIVE read_unsigned_loop(_, _, _)
\* the loop of read_unsigned after the first digit 1..9; max is T::MAX
read_unsigned_loop(d, num, max) ==
    LET p == peek_u8(d) IN
    IF p.v # None /\ IsDigit(p.v[1])
    THEN IF num * 10 > max \/ num * 10 + (p.v[1] - Digit0) > max
         THEN Err(p.d, Error_overflow)
         ELSE read_unsigned_loop(read_u8(p.d).d, num * 10 + (p.v[1] - Digit0), max)
    ELSE Ok(p.d, num)

\* read_unsigned_zero taking the digits after a leading 0 as not there
read_unsigned_zero_lenient(q) == Ok(q.d, 0)

\* after a leading 0: a digit q following it is refused
read_unsigned_zero(q) ==
    IF q.v # None /\ IsDigit(q.v[1])
    THEN Err(q.d, Error_unexpected_value("number after 0"))
    ELSE Ok(q.d, 0)

\* the match on the first byte p of read_unsigned
read_unsigned_first(p, max) ==
    IF p.v = None THEN Err(p.d, Error_eof)
    ELSE IF p.v[1] = Digit0 THEN read_unsigned_zero(peek_u8(read_u8(p.d).d))
    ELSE IF IsDigit(p.v[1])
    THEN read_unsigned_loop(read_u8(p.d).d, p.v[1] - Digit0, max)
    ELSE Err(p.d, Error_expected_value("number"))

\* read_unsigned with the largest value of T left out
read_unsigned_below_max(d, max) == read_unsigned_first(peek_u8(d), max - 1)

read_unsigned(d, max) == read_unsigned_first(peek_u8(d), max)

read_length(d) == read_unsigned(d, U64_MAX)

read_bool(d) ==
    LET p == peek_u8(d) IN
    IF p.v = Some(LetterT) \/ p.v = Some(LetterF)
    THEN Map(read_crlf(read_u8(p.d).d), p.v = Some(LetterT))
    ELSE Err(p.d, Error_expected_value("bool"))

(***************************************************************************)
(* str::from_utf8: the length of the longest valid UTF-8 prefix.           *)
(***************************************************************************)
IsCont(s, i) == i <= Len(s) /\ s[i] >= 128 /\ s[i] <= 191

RECURSIVE Utf8ValidUpTo(_, _)
Utf8ValidUpTo(s, i) ==
    IF i > Len(s) THEN Len(s)
    ELSE LET b == s[i] IN
         IF b < 128 THEN Utf8ValidUpTo(s, i + 1)
         ELSE IF b >= 194 /\ b <= 223 /\ IsCont(s, i + 1) THEN Utf8ValidUpTo(s, i + 2)
         ELSE IF /\ b >= 224 /\ b <= 239 /\ IsCont(s, i + 1) /\ IsCont(s, i + 2)
                 /\ (b = 224 => s[i + 1] >= 160)
                 /\ (b = 237 => s[i + 1] <= 159)
              THEN Utf8ValidUpTo(s, i + 3)
         ELSE IF /\ b >= 240 /\ b <= 244
                 /\ IsCont(s, i + 1) /\ IsCont(s, i + 2) /\ IsCont(s, i + 3)
                 /\ (b = 240 => s[i + 1] >= 144)
                 /\ (b = 244 => s[i + 1] <= 143)
              THEN Utf8ValidUpTo(s, i + 4)
         ELSE i - 1

valid_up_to(s) == Utf8ValidUpTo(s, 1)
IsUtf8(s) == valid_up_to(s) = Len(s)

(***************************************************************************)
(* f64.  A finite double is the decimal neg * m * 10^-e of its shortest    *)
(* representation (m has no trailing zero when e > 0); Display and         *)
(* str::parse::<f64> round-trip exactly on it.                             *)
(***************************************************************************)
F64(neg, m, e) == [t |-> "f64", c |-> "fin", neg |-> neg, m |-> m, e |-> e]
F64_INFINITY == [t |-> "f64", c |-> "inf", neg |-> FALSE, m |-> 0, e |-> 0]
F64_NEG_INFINITY == [t |-> "f64", c |-> "inf", neg |-> TRUE, m |-> 0, e |-> 0]
F64_NAN == [t |-> "f64", c |-> "nan", neg |-> FALSE, m |-> 0, e |-> 0]

RECURSIVE F64_normal(_, _, _)
F64_normal(neg, m, e) ==
    IF e > 0 /\ m % 10 = 0 THEN F64_normal(neg, m \div 10, e - 1) ELSE F64(neg, m, e)

\* the == of f64: NaN equals nothing, -0.0 equals 0.0
F64_eq(a, b) ==
    /\ a.c # "nan" /\ b.c # "nan"
    /\ a.c = b.c
    /\ IF a.c = "inf" THEN a.neg = b.neg
       ELSE /\ a.m = b.m /\ a.e = b.e
            /\ (a.m # 0 => a.neg = b.neg)

F64_neg(a) == [a EXCEPT !.neg = ~@]

\* i64 as f64
F64_from_int(i) == IF i < 0 THEN F64(TRUE, -i, 0) ELSE F64(FALSE, i, 0)

RECURSIVE DigitsValue(_, _, _)
\* the number the decimal digits s[i..] denote, after acc
DigitsValue(s, i, acc) ==
    IF i > Len(s) THEN acc ELSE DigitsValue(s, i + 1, acc * 10 + (s[i] - Digit0))

AllDigits(s) == \A i \in 1..Len(s) : IsDigit(s[i])

\* index of the first '.' of s, Len(s) + 1 when there is none
FirstDot(s) ==
    LET dots == {i \in 1..Len(s) : s[i] = Dot} IN
    IF dots = {} THEN Len(s) + 1 ELSE CHOOSE i \in dots : \A j \in dots : i <= j

\* the decimal with integer digits ip and fraction digits fp
ParseF64_decimal(ip, fp, neg) ==
    IF AllDigits(ip) /\ AllDigits(fp) /\ Len(ip) + Len(fp) > 0
    THEN [ok |-> TRUE, v |-> F64_normal(neg, DigitsValue(ip \o fp, 1, 0), Len(fp))]
    ELSE [ok |-> FALSE, v |-> F64_NAN]

\* str::parse::<f64> on sign-less text: "inf", "nan" or digits [. digits]
ParseF64_unsigned(s, neg) ==
    IF s = INF THEN [ok |-> TRUE, v |-> IF neg THEN F64_NEG_INFINITY ELSE F64_INFINITY]
    ELSE IF s = <<LetterN, 97, LetterN>> THEN [ok |-> TRUE, v |-> F64_NAN]
    ELSE ParseF64_decimal(SubSeq(s, 1, FirstDot(s) - 1),
                          SubSeq(s, FirstDot(s) + 1, Len(s)), neg)

\* str::parse::<f64>: an optional sign, then the sign-less text
ParseF64(s) ==
    ParseF64_unsigned(IF Len(s) > 0 /\ s[1] \in {Minus, 43} THEN Tail(s) ELSE s,
                      Len(s) > 0 /\ s[1] = Minus)

RECURSIVE read_double_loop(_, _)
\* the loop of read_double: collect bytes up to CR or LF
read_double_loop(d, buf) ==
    LET p == peek_u8(d) IN
    IF p.v = None THEN Err(p.d, Error_eof)
    ELSE IF p.v[1] # CR /\ p.v[1] # LF
    THEN read_double_loop(read_u8(p.d).d, Append(buf, p.v[1]))
    ELSE Ok(p.d, buf)

\* from_utf8 and str.parse::<f64>() of the collected bytes b
read_double_text(b) ==
    IF ~b.ok THEN b
    ELSE IF ~IsUtf8(b.v) THEN Err(b.d, Error_utf8(valid_up_to(b.v)))
    ELSE IF ~ParseF64(b.v).ok THEN Err(b.d, Error_parse)
    ELSE Ok(b.d, ParseF64(b.v).v)

\* after the sign: "inf" uses negative, any other text is parsed without it
read_double_unsigned(q, negative) ==
    IF q.v = Some(LetterI)
    THEN Map(read_ident(q.d, INF), IF negative THEN F64_NEG_INFINITY ELSE F64_INFINITY)
    ELSE read_double_text(read_double_loop(q.d, <<>>))

\* a leading '-' is consumed into negative
read_double(d) ==
    LET p == peek_u8(d) IN
    read_double_unsigned(peek_u8(IF p.v = Some(Minus) THEN read_u8(p.d).d ELSE p.d),
                         p.v = Some(Minus))

(***************************************************************************)
(* Target types T (what the caller asks the Deserializer for) are records  *)
(* [k |-> kind, ...]; a type also stands for its serde Visitor.            *)
(***************************************************************************)
T_bool == [k |-> "bool"]
T_i64 == [k |-> "i64"]
T_u64 == [k |-> "u64"]
T_f64 == [k |-> "f64"]
T_String == [k |-> "String"]
T_str == [k |-> "str"]
T_ByteBuf == [k |-> "ByteBuf"]
T_unit == [k |-> "unit"]
T_Option(T) == [k |-> "Option", of |-> T]
T_Vec(T) == [k |-> "Vec", of |-> T]
T_tuple(Ts) == [k |-> "tuple", of |-> Ts]
T_HashMap(K, V) == [k |-> "HashMap", key |-> K, val |-> V]
T_struct(names, Ts) == [k |-> "struct", names |-> names, of |-> Ts]
T_Field(names) == [k |-> "Field", names |-> names]
\* types.rs: owned:: and borrowed:: wrappers
T_owned(name) == [k |-> "owned", name |-> name]
T_borrowed(name) == [k |-> "borrowed", name |-> name]
T_WithAttribute(A, V) == [k |-> "WithAttribute", attr |-> A, val |-> V]
T_Push(P) == [k |-> "Push", of |-> P]
T_AnySkip == [k |-> "AnySkip"]
T_AttributeSkip == [k |-> "AttributeSkip"]
T_PushSkip == [k |-> "PushSkip"]
T_OkResponse == [k |-> "OkResponse"]
\* a derived enum: its Deserialize impl calls deserialize_enum
T_enum == [k |-> "enum"]

WrapperToken(name) ==
    CASE name = "SimpleError" -> SIMPLE_ERROR_TOKEN
      [] name = "BlobError" -> BLOB_ERROR_TOKEN
      [] name = "SimpleString" -> SIMPLE_STRING_TOKEN
      [] name = "BlobString" -> BLOB_STRING_TOKEN

(***************************************************************************)
(* Decoded values.                                                         *)
(***************************************************************************)
V_bool(b) == [t |-> "bool", b |-> b]
V_int(i) == [t |-> "int", i |-> i]
V_str(s, cow) == [t |-> "str", s |-> s, cow |-> cow]
V_bytes(s, cow) == [t |-> "bytes", s |-> s, cow |-> cow]
V_wrap(name, s, cow) == [t |-> "wrap", name |-> name, s |-> s, cow |-> cow]
V_unit == [t |-> "unit"]
V_None == [t |-> "None"]
V_Some(x) == [t |-> "Some", x |-> x]
V_seq(xs) == [t |-> "seq", xs |-> xs]
V_map(kv) == [t |-> "map", kv |-> kv]
V_struct(fs) == [t |-> "struct", fs |-> fs]
V_field(i) == [t |-> "field", idx |-> i]
V_unset == [t |-> "unset"]
V_WithAttribute(a, v) == [t |-> "WithAttribute", attr |-> a, value |-> v]
V_Push(x) == [t |-> "Push", x |-> x]
V_OkResponse == [t |-> "OkResponse"]

\* AnySkipVisitor (types.rs) takes every visit_* and yields ()
IsAnySkipVisitor(T) == T.k = "AnySkip"

invalid_type == Error_custom("invalid type")
invalid_length == Error_custom("invalid length")

\* a serde Visitor receiving a scalar through method; the visitors of the
\* primitive types take their own method, AnySkipVisitor takes all
visit_scalar(T, d, method, v) ==
    IF IsAnySkipVisitor(T) THEN Ok(d, V_unit)
    ELSE IF <<T.k, method>> \in {<<"bool", "visit_bool">>, <<"i64", "visit_i64">>,
                                 <<"u64", "visit_u64">>, <<"f64", "visit_f64">>,
                                 <<"unit", "visit_unit">>, <<"Option", "visit_none">>}
    THEN Ok(d, v)
    ELSE Err(d, invalid_type)

\* position of name in names, 0 when absent
IndexOf(names, name) ==
    IF \E i \in 1..Len(names) : names[i] = name
    THEN CHOOSE i \in 1..Len(names) : names[i] = name
    ELSE 0

\* the visit_str / visit_borrowed_str of the Visitor of T
visit_str_of(T, d, s, borrowed) ==
    CASE IsAnySkipVisitor(T) -> Ok(d, V_unit)
      [] T.k = "String" -> Ok(d, V_str(s, "Owned"))
      [] T.k = "str" -> IF borrowed THEN Ok(d, V_str(s, "Borrowed")) ELSE Err(d, invalid_type)
      [] T.k = "owned" -> Ok(d, V_wrap(T.name, s, "Owned"))
      [] T.k = "borrowed" -> Ok(d, V_wrap(T.name, s, IF borrowed THEN "Borrowed" ELSE "Owned"))
      [] T.k = "Field" -> Ok(d, V_field(IndexOf(T.names, s)))
      [] OTHER -> Err(d, invalid_type)

visit_ref_str(r, T, d) ==
    IF ~IsUtf8(r.bytes) THEN Err(d, Error_utf8(valid_up_to(r.bytes)))
    ELSE IF r.variant = "Copied"
    THEN visit_str_of(T, Logged(d, RefEvent("visit_str", r)), r.bytes, FALSE)
    ELSE visit_str_of(T, Logged(d, RefEvent("visit_borrowed_str", r)), r.bytes, TRUE)

visit_bytes_of(T, d, s, borrowed) ==
    CASE IsAnySkipVisitor(T) -> Ok(d, V_unit)
      [] T.k = "ByteBuf" -> Ok(d, V_bytes(s, "Owned"))
      [] OTHER -> Err(d, invalid_type)

visit_ref_bytes(r, T, d) ==
    IF r.variant = "Copied"
    THEN visit_bytes_of(T, Logged(d, RefEvent("visit_bytes", r)), r.bytes, FALSE)
    ELSE visit_bytes_of(T, Logged(d, RefEvent("visit_borrowed_bytes", r)), r.bytes, TRUE)

(***************************************************************************)
(* impl Deserializer: the parse_* helpers.                                 *)
(***************************************************************************)
\* |ch| ch == b'\r' || ch == b'\n'
IsCrOrLf == {CR, LF}

\* read_slice(len, true) with the length len read_length returned
parse_blob_string_payload(len) ==
    IF ~len.ok THEN len ELSE read_slice(len.d, len.v, TRUE)

\* parse_blob_string taking the payload up to the first CR or LF instead of
\* the declared length
parse_blob_string_until_crlf(d) ==
    LET len == Crlf(read_length(d)) IN
    IF ~len.ok THEN len ELSE read_slice_until(len.d, IsCrOrLf, TRUE)

parse_blob_string(d) == parse_blob_string_payload(Crlf(read_length(d)))

parse_simple_string(d) == read_slice_until(d, IsCrOrLf, TRUE)

parse_double(d) == Crlf(read_double(d))

(***************************************************************************)
(* impl serde::Deserializer for &mut Deserializer<R>.  Every deserialize_* *)
(* takes the Deserializer d and the requested type T (its Visitor) and     *)
(* yields Ok(d', value) or Err(d', error).                                 *)
(***************************************************************************)
RECURSIVE Deserialize(_, _)

skip_attribute(d) == Deserialize(T_AttributeSkip, d)

\* self.reader.peek_u8()?.ok_or_else(Error::eof)
peek_or_eof(p) == IF p.v = None THEN Err(p.d, Error_eof) ELSE Ok(p.d, p.v[1])

\* the peek after skip_attribute; without a retry loop a second attribute
\* frame is left in front
peek_skipped(s) == IF ~s.ok THEN s ELSE peek_or_eof(peek_u8(s.d))

peek_skip_attribute(d) ==
    LET p == peek_u8(d) IN
    IF p.v = None THEN Err(p.d, Error_eof)
    ELSE IF p.v[1] = MarkAttribute /\ p.d.skip_attribute
    THEN peek_skipped(skip_attribute(p.d))
    ELSE Ok(p.d, p.v[1])

\* visitor.visit_bool(val) and its like: r is the value read, wrapped by the
\* decoded-value constructor of method
visit_read(r, T, method) ==
    IF ~r.ok THEN r
    ELSE visit_scalar(T, r.d, method,
                      CASE method = "visit_bool" -> V_bool(r.v)
                        [] method \in {"visit_i64", "visit_u64"} -> V_int(r.v)
                        [] method = "visit_f64" -> r.v
                        [] method = "visit_none" -> V_None
                        [] method = "visit_unit" -> V_unit)

deserialize_bool(d, T) ==
    LET p == peek_skip_attribute(d) IN
    IF ~p.ok THEN p
    ELSE IF p.v = MarkBool THEN visit_read(read_bool(read_u8(p.d).d), T, "visit_bool")
    ELSE Err(p.d, Error_expected_marker("bool"))

\* -num of the value num read
Negated(num) == IF ~num.ok THEN num ELSE Ok(num.d, -num.v)

\* the match on the byte q after ':' in deserialize_i64
deserialize_i64_number(q, T) ==
    IF q.v = Some(Minus)
    THEN visit_read(Negated(Crlf(read_unsigned(read_u8(q.d).d, I64_MAX))), T, "visit_i64")
    ELSE IF q.v # None /\ IsDigit(q.v[1])
    THEN visit_read(Crlf(read_unsigned(q.d, I64_MAX)), T, "visit_i64")
    ELSE Err(q.d, Error_expected_value("number"))

deserialize_i64(d, T) ==
    LET p == peek_skip_attribute(d) IN
    IF ~p.ok THEN p
    ELSE IF p.v = MarkNumber THEN deserialize_i64_number(peek_u8(read_u8(p.d).d), T)
    ELSE Err(p.d, Error_expected_marker("number"))

\* the match on the byte q after ':' in deserialize_u64
deserialize_u64_number(q, T) ==
    IF q.v = Some(Minus) THEN Err(q.d, Error_unexpected_value("signed"))
    ELSE IF q.v # None /\ IsDigit(q.v[1])
    THEN visit_read(Crlf(read_unsigned(q.d, U64_MAX)), T, "visit_u64")
    ELSE Err(q.d, Error_expected_value("number"))

deserialize_u64(d, T) ==
    LET p == peek_skip_attribute(d) IN
    IF ~p.ok THEN p
    ELSE IF p.v = MarkNumber THEN deserialize_u64_number(peek_u8(read_u8(p.d).d), T)
    ELSE Err(p.d, Error_expected_marker("number"))

\* num as f64
AsF64(num) == IF ~num.ok THEN num ELSE Ok(num.d, F64_from_int(num.v))

\* the match on the byte q after ':' in deserialize_f64
deserialize_f64_number(q, T) ==
    IF q.v = Some(Minus)
    THEN visit_read(AsF64(Negated(Crlf(read_unsigned(read_u8(q.d).d, I64_MAX)))),
                    T, "visit_f64")
    ELSE IF q.v # None /\ IsDigit(q.v[1])
    THEN visit_read(AsF64(Crlf(read_unsigned(q.d, I64_MAX))), T, "visit_f64")
    ELSE Err(q.d, Error_expected_value("number"))

deserialize_f64(d, T) ==
    LET p == peek_skip_attribute(d) IN
    IF ~p.ok THEN p
    ELSE IF p.v = MarkNumber THEN deserialize_f64_number(peek_u8(read_u8(p.d).d), T)
    ELSE IF p.v = MarkDouble THEN visit_read(parse_double(read_u8(p.d).d), T, "visit_f64")
    ELSE Err(p.d, Error_expected_marker("number|double"))

\* visit_ref_str(bytes?, visitor)
visit_parsed_str(bytes, T) ==
    IF ~bytes.ok THEN bytes ELSE visit_ref_str(bytes.v, T, bytes.d)

deserialize_str(d, T) ==
    LET p == peek_skip_attribute(d) IN
    IF ~p.ok THEN p
    ELSE IF p.v = MarkSimpleString \/ p.v = MarkSimpleError
    THEN visit_parsed_str(parse_simple_string(read_u8(p.d).d), T)
    ELSE IF p.v = MarkBlobString \/ p.v = MarkBlobError \/ p.v = MarkVerbatim
    THEN visit_parsed_str(parse_blob_string(read_u8(p.d).d), T)
    ELSE Err(p.d, Error_expected_marker("string|error"))

deserialize_string(d, T) == deserialize_str(d, T)
deserialize_identifier(d, T) == deserialize_str(d, T)

\* visit_ref_bytes(bytes?, visitor)
visit_parsed_bytes(bytes, T) ==
    IF ~bytes.ok THEN bytes ELSE visit_ref_bytes(bytes.v, T, bytes.d)

deserialize_bytes(d, T) ==
    LET p == peek_skip_attribute(d) IN
    IF ~p.ok THEN p
    ELSE IF p.v = MarkSimpleString \/ p.v = MarkSimpleError
    THEN visit_parsed_bytes(parse_simple_string(read_u8(p.d).d), T)
    ELSE IF p.v = MarkBlobString \/ p.v = MarkBlobError \/ p.v = MarkVerbatim
    THEN visit_parsed_bytes(parse_blob_string(read_u8(p.d).d), T)
    ELSE Err(p.d, Error_expected_marker("string|error"))

deserialize_byte_buf(d, T) == deserialize_bytes(d, T)

\* Some(x) of the value x decoded
AsSome(r) == IF ~r.ok THEN r ELSE Ok(r.d, V_Some(r.v))

\* visit_some of the Visitor of T: Option<X> deserializes X; AnySkipVisitor
\* deserializes its Value, which is ()
visit_some(T, d) ==
    IF IsAnySkipVisitor(T) THEN Deserialize(T_unit, d)
    ELSE IF T.k = "Option" THEN AsSome(Deserialize(T.of, d))
    ELSE Err(d, invalid_type)

deserialize_option(d, T) ==
    LET p == peek_skip_attribute(d) IN
    IF ~p.ok THEN p
    ELSE IF p.v = MarkNull THEN visit_read(read_crlf(read_u8(p.d).d), T, "visit_none")
    ELSE visit_some(T, p.d)

deserialize_unit(d, T) ==
    LET p == peek_skip_attribute(d) IN
    IF ~p.ok THEN p
    ELSE IF p.v = MarkNull THEN visit_read(read_crlf(read_u8(p.d).d), T, "visit_unit")
    ELSE Err(p.d, Error_expected_marker("null"))

(***************************************************************************)
(* CountSeqAccess / CountMapAccess driven by the visit_seq / visit_map of  *)
(* the serde Visitors: len is the count of children still to hand out.     *)
(***************************************************************************)
RECURSIVE VecVisitor_visit_seq(_, _, _, _)
\* Vec<T>: next_element until None
VecVisitor_visit_seq(T, d, len, acc) ==
    IF len = 0 THEN Ok(d, V_seq(acc))
    ELSE LET r == Deserialize(T.of, d) IN
         IF ~r.ok THEN r ELSE VecVisitor_visit_seq(T, r.d, len - 1, Append(acc, r.v))

RECURSIVE TupleVisitor_visit_seq(_, _, _, _, _)
\* a tuple or derived struct read positionally: one next_element per field,
\* None is invalid_length, and nothing is asked after the last field
TupleVisitor_visit_seq(Ts, d, len, i, acc) ==
    IF i > Len(Ts) THEN Ok(d, acc)
    ELSE IF len = 0 THEN Err(d, invalid_length)
    ELSE LET r == Deserialize(Ts[i], d) IN
         IF ~r.ok THEN r ELSE TupleVisitor_visit_seq(Ts, r.d, len - 1, i + 1, Append(acc, r.v))

RECURSIVE AnySkipVisitor_visit_seq(_, _)
AnySkipVisitor_visit_seq(d, len) ==
    IF len = 0 THEN Ok(d, V_unit)
    ELSE LET r == Deserialize(T_AnySkip, d) IN
         IF ~r.ok THEN r ELSE AnySkipVisitor_visit_seq(r.d, len - 1)

RECURSIVE AnySkipVisitor_visit_map(_, _)
AnySkipVisitor_visit_map(d, len) ==
    IF len = 0 THEN Ok(d, V_unit)
    ELSE LET key == Deserialize(T_AnySkip, d) IN
         IF ~key.ok THEN key
         ELSE LET val == Deserialize(T_AnySkip, key.d) IN
              IF ~val.ok THEN val ELSE AnySkipVisitor_visit_map(val.d, len - 1)

\* HashMap::insert: a key already present keeps its place and takes the new value
MapInsert(kv, key, val) ==
    IF \E i \in 1..Len(kv) : kv[i][1] = key
    THEN [i \in 1..Len(kv) |-> IF kv[i][1] = key THEN <<key, val>> ELSE kv[i]]
    ELSE Append(kv, <<key, val>>)

RECURSIVE MapVisitor_visit_map(_, _, _, _)
MapVisitor_visit_map(T, d, len, acc) ==
    IF len = 0 THEN Ok(d, V_map(acc))
    ELSE LET key == Deserialize(T.key, d) IN
         IF ~key.ok THEN key
         ELSE LET val == Deserialize(T.val, key.d) IN
              IF ~val.ok THEN val
              ELSE MapVisitor_visit_map(T, val.d, len - 1, MapInsert(acc, key.v, val.v))

\* the end of a derived visit_map: an absent Option field is None, any other
\* absent field is missing_field
StructFinish(T, d, fs) ==
    IF \E i \in 1..Len(fs) : fs[i] = V_unset /\ T.of[i].k # "Option"
    THEN Err(d, Error_custom("missing field"))
    ELSE Ok(d, V_struct([i \in 1..Len(fs) |-> IF fs[i] = V_unset THEN V_None ELSE fs[i]]))

RECURSIVE StructVisitor_visit_map(_, _, _, _)
\* the visit_map serde derives for a struct: keys are field identifiers, an
\* unknown key has its value ignored, a repeated key is duplicate_field
StructVisitor_visit_map(T, d, len, fs) ==
    IF len = 0 THEN StructFinish(T, d, fs)
    ELSE LET key == Deserialize(T_Field(T.names), d) IN
         IF ~key.ok THEN key
         ELSE IF key.v.idx = 0
         THEN LET val == Deserialize(T_AnySkip, key.d) IN
              IF ~val.ok THEN val ELSE StructVisitor_visit_map(T, val.d, len - 1, fs)
         ELSE IF fs[key.v.idx] # V_unset THEN Err(key.d, Error_custom("duplicate field"))
         ELSE LET val == Deserialize(T.of[key.v.idx], key.d) IN
              IF ~val.ok THEN val
              ELSE StructVisitor_visit_map(T, val.d, len - 1,
                                           [fs EXCEPT ![key.v.idx] = val.v])

\* visitor.visit_seq(CountSeqAccess::new(self, len))
visit_seq(T, d, len) ==
    CASE T.k = "Vec" -> VecVisitor_visit_seq(T, d, len, <<>>)
      [] T.k = "tuple" ->
            LET r == TupleVisitor_visit_seq(T.of, d, len, 1, <<>>) IN
            IF ~r.ok THEN r ELSE Ok(r.d, V_seq(r.v))
      [] T.k = "struct" ->
            LET r == TupleVisitor_visit_seq(T.of, d, len, 1, <<>>) IN
            IF ~r.ok THEN r ELSE Ok(r.d, V_struct(r.v))
      [] T.k = "WithAttribute" ->
            LET r == TupleVisitor_visit_seq(<<T.attr, T.val>>, d, len, 1, <<>>) IN
            IF ~r.ok THEN r ELSE Ok(r.d, V_WithAttribute(r.v[1], r.v[2]))
      [] IsAnySkipVisitor(T) -> AnySkipVisitor_visit_seq(d, len)
      [] OTHER -> Err(d, invalid_type)

\* visitor.visit_map(CountMapAccess::new(self, len))
visit_map(T, d, len) ==
    CASE T.k = "HashMap" -> MapVisitor_visit_map(T, d, len, <<>>)
      [] T.k = "struct" ->
            StructVisitor_visit_map(T, d, len, [i \in 1..Len(T.of) |-> V_unset])
      [] IsAnySkipVisitor(T) -> AnySkipVisitor_visit_map(d, len)
      [] OTHER -> Err(d, invalid_type)

\* visit_newtype_struct: PushVisitor deserializes P, AnySkipVisitor its Value ()
visit_newtype_struct(T, d) ==
    CASE T.k = "Push" ->
            LET r == Deserialize(T.of, d) IN IF ~r.ok THEN r ELSE Ok(r.d, V_Push(r.v))
      [] IsAnySkipVisitor(T) -> Deserialize(T_unit, d)
      [] OTHER -> Err(d, invalid_type)

\* read the count header of an aggregate whose marker is the next byte
ReadCount(d) == Crlf(read_length(read_u8(d).d))

\* visitor.visit_map(CountMapAccess::new(self, len)) with the count len read
visit_counted_map(len, T) ==
    IF ~len.ok THEN len ELSE visit_map(T, len.d, len.v)

\* visitor.visit_seq(CountSeqAccess::new(self, len)) with the count len read
visit_counted_seq(len, T) ==
    IF ~len.ok THEN len ELSE visit_seq(T, len.d, len.v)

\* the byte is peeked without skipping an attribute
\* deserialize_newtype_struct taking any text frame for a tag wrapper
deserialize_newtype_struct_any_text(d, name, T) ==
    LET p == peek_u8(d) IN
    IF p.v = None THEN Err(p.d, Error_eof)
    ELSE IF name \in {SIMPLE_ERROR_TOKEN, BLOB_ERROR_TOKEN,
                      SIMPLE_STRING_TOKEN, BLOB_STRING_TOKEN}
    THEN IF p.v[1] \in {MarkSimpleString, MarkSimpleError}
         THEN visit_parsed_str(parse_simple_string(read_u8(p.d).d), T)
         ELSE IF p.v[1] \in {MarkBlobString, MarkBlobError}
         THEN visit_parsed_str(parse_blob_string(read_u8(p.d).d), T)
         ELSE Err(p.d, Error_expected_marker("string|error"))
    ELSE IF name = ATTRIBUTE_SKIP_TOKEN
    THEN IF p.v[1] = MarkAttribute
         THEN visit_counted_map(ReadCount(p.d), T)
         ELSE Err(p.d, Error_expected_marker("blob string"))
    ELSE visit_newtype_struct(T, p.d)

deserialize_newtype_struct(d, name, T) ==
    LET p == peek_u8(d) IN
    IF p.v = None THEN Err(p.d, Error_eof)
    ELSE CASE name = SIMPLE_ERROR_TOKEN ->
                IF p.v[1] = MarkSimpleError
                THEN visit_parsed_str(parse_simple_string(read_u8(p.d).d), T)
                ELSE Err(p.d, Error_expected_marker("simple error"))
           [] name = BLOB_ERROR_TOKEN ->
                IF p.v[1] = MarkBlobError
                THEN visit_parsed_str(parse_blob_string(read_u8(p.d).d), T)
                ELSE Err(p.d, Error_expected_marker("blob error"))
           [] name = SIMPLE_STRING_TOKEN ->
                IF p.v[1] = MarkSimpleString
                THEN visit_parsed_str(parse_simple_string(read_u8(p.d).d), T)
                ELSE Err(p.d, Error_expected_marker("simple string"))
           [] name = BLOB_STRING_TOKEN ->
                IF p.v[1] = MarkBlobString
                THEN visit_parsed_str(parse_blob_string(read_u8(p.d).d), T)
                ELSE Err(p.d, Error_expected_marker("blob string"))
           [] name = ATTRIBUTE_SKIP_TOKEN ->
                IF p.v[1] = MarkAttribute
                THEN visit_counted_map(ReadCount(p.d), T)
                ELSE Err(p.d, Error_expected_marker("blob string"))
           [] OTHER -> visit_newtype_struct(T, p.d)

deserialize_seq(d, T) ==
    LET p == peek_skip_attribute(d) IN
    IF ~p.ok THEN p
    ELSE IF p.v = MarkArray \/ p.v = MarkSet THEN visit_counted_seq(ReadCount(p.d), T)
    ELSE Err(p.d, Error_expected_marker("array|set"))

deserialize_tuple(d, T) == deserialize_seq(d, T)

\* the flag left as the capture set it
Restored_never(r, last_skip) == r

\* self.skip_attribute = last_skip, whatever the visitor returned
Restored(r, last_skip) == [r EXCEPT !.d.skip_attribute = last_skip]

deserialize_tuple_struct(d, name, T) ==
    LET p == peek_u8(d) IN
    IF p.v = None THEN Err(p.d, Error_eof)
    ELSE IF name = ATTRIBUTE_TOKEN
    THEN IF p.v[1] = MarkAttribute
         THEN Restored(visit_seq(T, [p.d EXCEPT !.skip_attribute = FALSE], 2),
                       p.d.skip_attribute)
         ELSE Err(p.d, Error_expected_marker("attribute"))
    ELSE deserialize_seq(p.d, T)

\* the children of an attribute map are read with skip_attribute set, and
\* the flag is put back after them
visit_attribute_map(len, T) ==
    IF ~len.ok THEN len
    ELSE Restored(visit_map(T, [len.d EXCEPT !.skip_attribute = TRUE], len.v),
                  len.d.skip_attribute)

deserialize_map(d, T) ==
    LET p == peek_skip_attribute(d) IN
    IF ~p.ok THEN p
    ELSE IF p.v = MarkMap THEN visit_counted_map(ReadCount(p.d), T)
    ELSE IF p.v = MarkAttribute THEN visit_attribute_map(ReadCount(p.d), T)
    ELSE Err(p.d, Error_expected_marker("map"))

deserialize_struct(d, T) == deserialize_map(d, T)

deserialize_any(d, T) ==
    LET p == peek_skip_attribute(d) IN
    IF ~p.ok THEN p
    ELSE CASE p.v \in {MarkBlobString, MarkVerbatim, MarkBlobError,
                       MarkSimpleString, MarkSimpleError} -> deserialize_str(p.d, T)
           [] p.v = MarkBool -> deserialize_bool(p.d, T)
           [] p.v = MarkNumber -> deserialize_i64(p.d, T)
           [] p.v = MarkDouble -> deserialize_f64(p.d, T)
           [] p.v \in {MarkArray, MarkSet} -> deserialize_seq(p.d, T)
           [] p.v \in {MarkMap, MarkAttribute} -> deserialize_map(p.d, T)
           [] OTHER -> Err(p.d, Error_expected_value("type header"))

deserialize_ignored_any(d, T) == deserialize_any(d, T)

\* todo!()
deserialize_enum(d, T) == Panic(d, "not yet implemented")

(***************************************************************************)
(* impl Deserialize for the types: which deserialize_* each type calls.    *)
(***************************************************************************)
to_ascii_lowercase(b) == IF b >= 65 /\ b <= 90 THEN b + 32 ELSE b

eq_ignore_ascii_case(a, b) ==
    /\ Len(a) = Len(b)
    /\ \A i \in 1..Len(a) : to_ascii_lowercase(a[i]) = to_ascii_lowercase(b[i])

\* impl Deserialize for OkResponse
OkResponse_deserialize(d) ==
    LET s == Deserialize(T_borrowed("SimpleString"), d) IN
    IF ~s.ok THEN s
    ELSE IF eq_ignore_ascii_case(s.v.s, <<111, 107>>)
    THEN Err(s.d, Error_custom("expect +OK"))
    ELSE Ok(s.d, V_OkResponse)

AsUnit(r) == IF ~r.ok THEN r ELSE Ok(r.d, V_unit)

Deserialize(T, d) ==
    CASE T.k = "bool" -> deserialize_bool(d, T)
      [] T.k = "i64" -> deserialize_i64(d, T)
      [] T.k = "u64" -> deserialize_u64(d, T)
      [] T.k = "f64" -> deserialize_f64(d, T)
      [] T.k = "String" -> deserialize_string(d, T)
      [] T.k = "str" -> deserialize_str(d, T)
      [] T.k = "ByteBuf" -> deserialize_byte_buf(d, T)
      [] T.k = "unit" -> deserialize_unit(d, T)
      [] T.k = "Option" -> deserialize_option(d, T)
      [] T.k = "Vec" -> deserialize_seq(d, T)
      [] T.k = "tuple" -> deserialize_tuple(d, T)
      [] T.k = "HashMap" -> deserialize_map(d, T)
      [] T.k = "struct" -> deserialize_struct(d, T)
      [] T.k = "Field" -> deserialize_identifier(d, T)
      [] T.k \in {"owned", "borrowed"} ->
            deserialize_newtype_struct(d, WrapperToken(T.name), T)
      [] T.k = "WithAttribute" -> deserialize_tuple_struct(d, WITH_ATTRIBUTE_TOKEN, T)
      [] T.k = "Push" -> deserialize_newtype_struct(d, PUSH_TOKEN, T)
      [] T.k = "AnySkip" -> AsUnit(deserialize_ignored_any(d, T_AnySkip))
      [] T.k = "AttributeSkip" ->
            AsUnit(deserialize_newtype_struct(d, ATTRIBUTE_SKIP_TOKEN, T_AnySkip))
      [] T.k = "PushSkip" -> AsUnit(deserialize_newtype_struct(d, PUSH_TOKEN, T_AnySkip))
      [] T.k = "OkResponse" -> OkResponse_deserialize(d)
      [] T.k = "enum" -> deserialize_enum(d, T)

from_slice(input, T) == Deserialize(T, Deserializer_from_slice(input))
from_read(rd, T) == Deserialize(T, Deserializer_from_read(rd))

(***************************************************************************)
(* The Serializer (ser.rs).  A value to encode is the sequence of serde    *)
(* data-model calls its Serialize impl makes, as a record [c |-> call];    *)
(* the Serializer is its writer, the bytes written so far.                 *)
(***************************************************************************)
S_bool(b) == [c |-> "bool", b |-> b]
S_i64(i) == [c |-> "i64", i |-> i]
S_u64(i) == [c |-> "u64", i |-> i]
S_f64(f) == [c |-> "f64", f |-> f]
S_str(s) == [c |-> "str", s |-> s]
S_bytes(s) == [c |-> "bytes", s |-> s]
S_none == [c |-> "none"]
S_some(x) == [c |-> "some", x |-> x]
S_unit == [c |-> "unit"]
S_char(ch) == [c |-> "char", s |-> ch]
S_unit_struct == [c |-> "unit_struct"]
S_unit_variant(variant) == [c |-> "unit_variant", variant |-> variant]
S_newtype_struct(name, x) == [c |-> "newtype_struct", name |-> name, x |-> x]
S_newtype_variant(variant, x) == [c |-> "newtype_variant", variant |-> variant, x |-> x]
S_seq(xs) == [c |-> "seq", xs |-> xs]
S_tuple(xs) == [c |-> "tuple", xs |-> xs]
S_tuple_struct(name, xs) == [c |-> "tuple_struct", name |-> name, xs |-> xs]
S_tuple_variant(variant, xs) == [c |-> "tuple_variant", variant |-> variant, xs |-> xs]
S_map(kv) == [c |-> "map", kv |-> kv]
S_struct(names, xs) == [c |-> "struct", names |-> names, xs |-> xs]
S_struct_variant(variant, names, xs) ==
    [c |-> "struct_variant", variant |-> variant, names |-> names, xs |-> xs]

\* impl Serialize of the wrappers of types.rs
S_SimpleString(s) == S_newtype_struct(SIMPLE_STRING_TOKEN, S_str(s))
S_BlobString(s) == S_newtype_struct(BLOB_STRING_TOKEN, S_str(s))
S_SimpleError(s) == S_newtype_struct(SIMPLE_ERROR_TOKEN, S_str(s))
S_BlobError(s) == S_newtype_struct(BLOB_ERROR_TOKEN, S_str(s))
S_WithAttribute(a, v) ==
    S_newtype_struct(WITH_ATTRIBUTE_TOKEN, S_tuple_struct(WITH_ATTRIBUTE_TOKEN, <<a, v>>))
S_Push(p) == S_newtype_struct(PUSH_TOKEN, p)
S_OkResponse == S_newtype_struct(SIMPLE_STRING_TOKEN, S_str(<<79, 75>>))

SerOk(w) == [ok |-> TRUE, err |-> NoErr, bytes |-> w]
SerErr(w, e) == [ok |-> FALSE, err |-> e, bytes |-> w]

RECURSIVE FormatUnsigned(_)
\* Display of an unsigned integer: its decimal digits
FormatUnsigned(n) ==
    IF n < 10 THEN <<Digit0 + n>>
    ELSE Append(FormatUnsigned(n \div 10), Digit0 + (n % 10))

\* Display of i64
FormatI64(v) == IF v < 0 THEN <<Minus>> \o FormatUnsigned(-v) ELSE FormatUnsigned(v)

RECURSIVE Pow10(_)
Pow10(e) == IF e = 0 THEN 1 ELSE 10 * Pow10(e - 1)

RECURSIVE ZeroPad(_, _)
ZeroPad(s, width) == IF Len(s) >= width THEN s ELSE ZeroPad(<<Digit0>> \o s, width)

\* Display of a finite f64: sign, integer part, and the fraction when there is one
FormatF64(f) ==
    (IF f.neg THEN <<Minus>> ELSE <<>>)
    \o FormatUnsigned(f.m \div Pow10(f.e))
    \o (IF f.e = 0 THEN <<>>
        ELSE <<Dot>> \o ZeroPad(FormatUnsigned(f.m % Pow10(f.e)), f.e))

write_i64(w, v) == SerOk(w \o <<MarkNumber>> \o FormatI64(v) \o CRLF)
write_u64(w, v) == SerOk(w \o <<MarkNumber>> \o FormatUnsigned(v) \o CRLF)

\* write_f64 writing a NaN as text instead of refusing it
write_f64_nan_as_text(w, v) ==
    IF v.c = "nan" THEN SerOk(w \o <<MarkDouble, 78, 97, 78>> \o CRLF)
    ELSE IF v.c = "inf"
    THEN IF ~v.neg THEN SerOk(w \o <<MarkDouble>> \o INF \o CRLF)
         ELSE SerOk(w \o <<MarkDouble, Minus>> \o INF \o CRLF)
    ELSE SerOk(w \o <<MarkDouble>> \o FormatF64(v) \o CRLF)

write_f64(w, v) ==
    IF v.c = "nan" THEN SerErr(w, Error_nan)
    ELSE IF v.c = "inf"
    THEN IF ~v.neg THEN SerOk(w \o <<MarkDouble>> \o INF \o CRLF)
         ELSE SerOk(w \o <<MarkDouble, Minus>> \o INF \o CRLF)
    ELSE SerOk(w \o <<MarkDouble>> \o FormatF64(v) \o CRLF)

write_bool(w, v) == SerOk(w \o <<MarkBool, IF v THEN LetterT ELSE LetterF>> \o CRLF)
\* write_simple_string with the marker of a simple error
write_simple_string_as_error(w, s) == SerOk(w \o <<MarkSimpleError>> \o s \o CRLF)
write_simple_string(w, s) == SerOk(w \o <<MarkSimpleString>> \o s \o CRLF)
\* c is the UTF-8 encoding of the char
write_simple_string_char(w, c) == SerOk(w \o <<MarkSimpleString>> \o c \o CRLF)
write_blob_string(w, s) ==
    SerOk(w \o <<MarkBlobString>> \o FormatUnsigned(Len(s)) \o CRLF \o s \o CRLF)
write_simple_error(w, s) == SerOk(w \o <<MarkSimpleError>> \o s \o CRLF)
write_blob_error(w, s) ==
    SerOk(w \o <<MarkBlobError>> \o FormatUnsigned(Len(s)) \o CRLF \o s \o CRLF)
write_null(w) == SerOk(w \o <<MarkNull>> \o CRLF)
write_array_len_marker(w, len) == SerOk(w \o <<MarkArray>> \o FormatUnsigned(len) \o CRLF)
\* write_map_len_marker with the marker of an array
write_map_len_marker_as_array(w, len) ==
    SerOk(w \o <<MarkArray>> \o FormatUnsigned(len) \o CRLF)
write_map_len_marker(w, len) == SerOk(w \o <<MarkMap>> \o FormatUnsigned(len) \o CRLF)

\* RespSpecificSerializer taking every value: text as a simple string, any
\* other value as a null
RespSpecificSerializer_accept_all(w, resp_kind, x) ==
    IF x.c \in {"str", "bytes"} THEN write_simple_string(w, x.s) ELSE write_null(w)

\* RespSpecificSerializer: only serialize_str (and UTF-8 bytes) is accepted
RespSpecificSerializer_serialize(w, resp_kind, x) ==
    IF x.c = "str" \/ (x.c = "bytes" /\ IsUtf8(x.s))
    THEN CASE resp_kind = SIMPLE_ERROR_TOKEN -> write_simple_error(w, x.s)
           [] resp_kind = BLOB_ERROR_TOKEN -> write_blob_error(w, x.s)
           [] resp_kind = SIMPLE_STRING_TOKEN -> write_simple_string(w, x.s)
           [] resp_kind = BLOB_STRING_TOKEN -> write_blob_string(w, x.s)
    ELSE IF x.c = "bytes" THEN SerErr(w, Error_utf8(valid_up_to(x.s)))
    ELSE SerErr(w, Error_unexpected_value(x.c))

RECURSIVE Serialize(_, _)

RECURSIVE SerializeAll(_, _, _)
\* SeqSerializer: serialize_element / serialize_field for each child in turn
SerializeAll(w, xs, i) ==
    IF i > Len(xs) THEN SerOk(w)
    ELSE LET r == Serialize(w, xs[i]) IN
         IF ~r.ok THEN r ELSE SerializeAll(r.bytes, xs, i + 1)

\* the key/value children of a map, or the name/value children of a struct
Interleave(ks, xs) == [i \in 1..(2 * Len(xs)) |->
                          IF i % 2 = 1 THEN ks[(i + 1) \div 2] ELSE xs[i \div 2]]

\* impl serde::Serializer for &mut Serializer<W>: value.serialize(self)
Serialize(w, x) ==
    CASE x.c = "bool" -> write_bool(w, x.b)
      [] x.c = "i64" -> write_i64(w, x.i)
      [] x.c = "u64" -> write_u64(w, x.i)
      [] x.c = "f64" -> write_f64(w, x.f)
      [] x.c = "char" -> write_simple_string_char(w, x.s)
      [] x.c = "str" -> write_simple_string(w, x.s)
      [] x.c = "bytes" ->
            IF IsUtf8(x.s) THEN write_blob_string(w, x.s)
            ELSE SerErr(w, Error_utf8(valid_up_to(x.s)))
      [] x.c \in {"none", "unit", "unit_struct"} -> write_null(w)
      [] x.c = "some" -> Serialize(w, x.x)
      [] x.c = "unit_variant" ->
            write_null(write_simple_string(write_map_len_marker(w, 1).bytes,
                                           x.variant).bytes)
      [] x.c = "newtype_struct" ->
            IF x.name \in {SIMPLE_ERROR_TOKEN, BLOB_ERROR_TOKEN,
                           SIMPLE_STRING_TOKEN, BLOB_STRING_TOKEN}
            THEN RespSpecificSerializer_serialize(w, x.name, x.x)
            ELSE Serialize(w, x.x)
      [] x.c = "newtype_variant" ->
            Serialize(write_simple_string(write_map_len_marker(w, 1).bytes,
                                          x.variant).bytes, x.x)
      [] x.c \in {"seq", "tuple", "tuple_struct"} ->
            SerializeAll(write_array_len_marker(w, Len(x.xs)).bytes, x.xs, 1)
      [] x.c = "tuple_variant" ->
            SerializeAll(write_array_len_marker(
                            write_simple_string(write_map_len_marker(w, 1).bytes,
                                                x.variant).bytes,
                            Len(x.xs)).bytes, x.xs, 1)
      [] x.c = "map" ->
            SerializeAll(write_map_len_marker(w, Len(x.kv)).bytes,
                         Interleave([i \in 1..Len(x.kv) |-> x.kv[i][1]],
                                    [i \in 1..Len(x.kv) |-> x.kv[i][2]]), 1)
      [] x.c = "struct" ->
            SerializeAll(write_map_len_marker(w, Len(x.xs)).bytes,
                         Interleave([i \in 1..Len(x.names) |-> S_str(x.names[i])], x.xs), 1)
      [] x.c = "struct_variant" ->
            SerializeAll(write_map_len_marker(
                            write_simple_string(write_map_len_marker(w, 1).bytes,
                                                x.variant).bytes,
                            Len(x.xs)).bytes,
                         Interleave([i \in 1..Len(x.names) |-> S_str(x.names[i])], x.xs), 1)

\* from_write(w): a Serializer over the writer w
from_write(w) == w

(***************************************************************************)
(* RESP3 frames on the wire (the inputs handed to the decoder).            *)
(***************************************************************************)
RECURSIVE Concat(_)
Concat(ss) == IF ss = <<>> THEN <<>> ELSE Head(ss) \o Concat(Tail(ss))

W_simple(s) == <<MarkSimpleString>> \o s \o CRLF
W_error(s) == <<MarkSimpleError>> \o s \o CRLF
W_blob(s) == <<MarkBlobString>> \o FormatUnsigned(Len(s)) \o CRLF \o s \o CRLF
W_blob_error(s) == <<MarkBlobError>> \o FormatUnsigned(Len(s)) \o CRLF \o s \o CRLF
W_verbatim(s) == <<MarkVerbatim>> \o FormatUnsigned(Len(s)) \o CRLF \o s \o CRLF
W_int(i) == <<MarkNumber>> \o FormatI64(i) \o CRLF
W_double(text) == <<MarkDouble>> \o text \o CRLF
W_bool(b) == <<MarkBool, IF b THEN LetterT ELSE LetterF>> \o CRLF
W_null == <<MarkNull>> \o CRLF
\* an aggregate: marker, declared count, the child frames
W_agg(marker, count, children) ==
    <<marker>> \o FormatUnsigned(count) \o CRLF \o Concat(children)
W_array(children) == W_agg(MarkArray, Len(children), children)
W_set(children) == W_agg(MarkSet, Len(children), children)
\* kv: key and value frames interleaved
W_map(kv) == W_agg(MarkMap, Len(kv) \div 2, kv)
W_attr(kv) == W_agg(MarkAttribute, Len(kv) \div 2, kv)

Str_a == <<97>>
Str_b == <<98>>
Str_c == <<99>>
Str_k == <<107>>
Str_v == <<118>>
Str_OK == <<79, 75>>

\* well-formed scalar frames
ScalarFrames ==
    {W_simple(Str_a), W_error(Str_a), W_blob(Str_a), W_blob_error(Str_a),
     W_verbatim(Str_a), W_int(5), W_int(-3), W_double(<<49, Dot, 53>>),
     W_bool(TRUE), W_null}

\* the attribute |1 +k +v
Attr_kv == W_attr(<<W_simple(Str_k), W_simple(Str_v)>>)
\* the attribute |1 +b +c in front of :20
Attr_bc == W_attr(<<W_simple(Str_b), W_simple(Str_c)>>)

\* well-formed aggregate frames, one with a child that carries an attribute
AggregateFrames ==
    {W_array(<<>>), W_array(<<W_int(1), W_int(2)>>), W_set(<<W_int(1)>>),
     W_map(<<W_simple(Str_k), W_int(1)>>),
     W_array(<<Attr_kv \o W_int(5)>>)}

ValueFrames == ScalarFrames \cup AggregateFrames

\* the attribute |1 +k <inner> <x>: the value x of key k carries the
\* attribute inner
NestedAttr(inner, x) == W_attr(<<W_simple(Str_k), inner \o x>>)
\* inner attributes: one pair, a null value, and a value that carries a
\* third attribute
InnerAttrs ==
    {Attr_bc,
     W_attr(<<W_simple(Str_b), W_null>>),
     W_attr(<<W_simple(Str_b), Attr_kv \o W_simple(Str_c)>>)}
InnerValues == {W_int(20), W_simple(Str_a)}
NestedAttrFrames == {NestedAttr(i, x) : i \in InnerAttrs, x \in InnerValues}

\* well-formed attribute frames: empty, with string, number, null and array
\* values, and with values that carry attributes of their own
AttrFrames ==
    {Attr_kv,
     W_attr(<<>>),
     W_attr(<<W_simple(Str_k), W_int(7)>>),
     W_attr(<<W_simple(Str_k), W_null>>),
     W_attr(<<W_simple(Str_k), W_array(<<W_int(1)>>)>>)}
    \cup NestedAttrFrames

WrapperNames == {"SimpleString", "BlobString", "SimpleError", "BlobError"}

T_struct_k(T) == T_struct(<<Str_k>>, <<T>>)

\* types that do not request attributes
PlainTargets ==
    {T_bool, T_i64, T_u64, T_f64, T_String, T_ByteBuf, T_unit, T_Option(T_i64),
     T_Vec(T_i64), T_tuple(<<T_i64, T_i64>>), T_HashMap(T_String, T_i64),
     T_struct_k(T_i64), T_AnySkip}
    \cup {T_owned(n) : n \in WrapperNames}
    \cup {T_borrowed("SimpleString"), T_borrowed("BlobString")}

\* attribute types A and value types V of the WithAttribute<A, V> targets
FieldTypes ==
    {T_String, T_i64, T_owned("SimpleString"), T_Vec(T_i64),
     T_WithAttribute(T_struct(<<Str_b>>, <<T_String>>), T_i64),
     T_WithAttribute(T_struct(<<Str_b>>, <<T_String>>), T_String)}
AttrTypes == {T_HashMap(T_String, T_String)} \cup {T_struct_k(F) : F \in FieldTypes}
ValTypes == {T_i64, T_String, T_Vec(T_i64), T_bool}
WithAttributeTargets == {T_WithAttribute(A, V) : A \in AttrTypes, V \in ValTypes}
WithAttributeFrames ==
    {W_int(5), W_simple(Str_a), W_bool(TRUE), W_array(<<W_int(1), W_int(2)>>),
     W_array(<<Attr_kv \o W_int(5)>>)}

\* arrays and sets that declare count children and hold have of them
CountedFrame(marker, count, have) ==
    W_agg(marker, count, [i \in 1..have |-> W_int(i)])
CardinalityFrames ==
    {CountedFrame(m, count, have) :
        m \in {MarkArray, MarkSet}, count \in 0..MaxCount, have \in 0..MaxCount}
TupleOfArity(n) == T_tuple([i \in 1..n |-> T_i64])
CardinalityTargets == {TupleOfArity(n) : n \in 1..MaxCount} \cup {T_Vec(T_i64)}

\* simple strings that are and are not OK, and frames that are not simple strings
OkTexts == {Str_OK, <<111, 107>>, <<79, 107>>, <<111, 75>>, Str_a, <<79>>,
            <<79, 75, 75>>, <<>>, <<78, 79>>}
OkFrames == {W_simple(s) : s \in OkTexts}
            \cup {W_blob(Str_OK), W_error(Str_OK), W_int(1), W_null, <<>>}

\* push frames of two children and the Push<P> types of two elements or fields
PushFrames ==
    {W_agg(MarkPush, 2, <<W_simple(Str_a), W_simple(Str_b)>>),
     W_agg(MarkPush, 2, <<W_simple(Str_a), W_int(5)>>)}
PushTargets ==
    {T_Push(T_tuple(<<T_String, T_String>>)),
     T_Push(T_tuple(<<T_String, T_i64>>)),
     T_Push(T_struct(<<Str_k, Str_v>>, <<T_String, T_String>>))}

\* the names of the variants of enum E { U, N(i64), T(u64, String),
\* S { a: u64, b: String } } and a one-entry map frame for each variant
Name_U == <<85>>
Name_N == <<78>>
Name_T == <<84>>
Name_S == <<83>>
VariantFrames ==
    {W_map(<<W_simple(Name_U), W_null>>),
     W_map(<<W_simple(Name_N), W_int(-5)>>),
     W_map(<<W_simple(Name_T), W_array(<<W_int(12), W_simple(Str_c)>>)>>),
     W_map(<<W_simple(Name_S),
             W_map(<<W_simple(Str_a), W_int(12), W_simple(Str_b), W_simple(Str_c)>>)>>)}

\* byte slices: UTF-8, not UTF-8 from the first byte on, not UTF-8 after
\* one byte, and a two-byte sequence cut short
ByteSlices == {Str_a, <<>>, <<255>>, <<97, 255>>, <<195>>}
\* blob and simple strings with these payloads and the types that ask for a
\* string and for bytes
ByteFrames == {W_blob(b) : b \in ByteSlices} \cup {W_simple(b) : b \in ByteSlices}
ByteTargets == {T_String, T_ByteBuf, T_owned("BlobString"), T_borrowed("SimpleString")}

Case(a, f, T) == [attr |-> a, frame |-> f, trailing |-> <<>>, T |-> T]
\* the frame f followed by the bytes t of the next frames of a pipeline
PipelineCase(a, f, t, T) == [attr |-> a, frame |-> f, trailing |-> t, T |-> T]

\* pipelines: no, one or two attribute frames, a well-formed frame, and the
\* bytes that follow it in the buffer: a whole frame, the start of a frame,
\* an attribute frame, a stray CR-LF
PipelinePrefixes == {<<>>, Attr_kv, Attr_kv \o Attr_bc}
PipelineFrames == ValueFrames \cup {CountedFrame(MarkArray, n, n) : n \in 0..MaxCount}
PipelineTrailers == {W_int(7), <<MarkNumber>>, Attr_kv, CRLF}
PipelineTargets == PlainTargets \cup {T_HashMap(T_String, T_String)}

\* well-formed frames, each with a type it decodes as, and every proper
\* prefix of each frame
TruncationPairs ==
    {<<W_simple(Str_a), T_String>>, <<W_error(Str_a), T_owned("SimpleError")>>,
     <<W_blob(Str_a), T_String>>, <<W_blob(Str_a), T_ByteBuf>>,
     <<W_blob_error(Str_a), T_owned("BlobError")>>, <<W_verbatim(Str_a), T_String>>,
     <<W_int(-3), T_i64>>, <<W_int(5), T_u64>>, <<W_int(5), T_f64>>,
     <<W_double(<<49, Dot, 53>>), T_f64>>, <<W_double(<<Minus>> \o INF), T_f64>>,
     <<W_bool(TRUE), T_bool>>, <<W_null, T_unit>>, <<W_null, T_Option(T_i64)>>,
     <<W_array(<<W_int(1), W_int(2)>>), T_Vec(T_i64)>>,
     <<W_array(<<W_int(1), W_int(2)>>), T_tuple(<<T_i64, T_i64>>)>>,
     <<W_set(<<W_int(1)>>), T_Vec(T_i64)>>,
     <<W_map(<<W_simple(Str_k), W_int(1)>>), T_HashMap(T_String, T_i64)>>,
     <<W_map(<<W_simple(Str_k), W_int(1)>>), T_struct_k(T_i64)>>,
     <<W_array(<<W_simple(Str_a)>>), T_AnySkip>>,
     <<W_simple(Str_OK), T_OkResponse>>}
ProperPrefixes(f) == {SubSeq(f, 1, n) : n \in 0..(Len(f) - 1)}

\* well-formed frames of every kind, nested ones included, and an integer
\* above i64::MAX that fits the unsigned 64 bits of the wire
AnySkipFrames ==
    ValueFrames \cup PushFrames
    \cup {<<MarkNumber>> \o FormatUnsigned(U64_MAX) \o CRLF,
          W_array(<<W_null, W_bool(FALSE)>>),
          W_map(<<W_simple(Str_k), W_array(<<W_blob(Str_a), W_double(INF)>>)>>),
          W_set(<<W_map(<<W_int(1), W_set(<<>>)>>)>>)}

\* digit strings with and without a leading zero, as an integer, as the
\* length of a blob and as the count of an aggregate
Digits_0 == <<Digit0>>
Digits_01 == <<Digit0, Digit0 + 1>>
Digits_00 == <<Digit0, Digit0>>
Digits_1 == <<Digit0 + 1>>
Digits_10 == <<Digit0 + 1, Digit0>>
DigitStrings == {Digits_0, Digits_01, Digits_00, Digits_1, Digits_10}
\* the frame with the digits ds in the place of an integer, a length, a count
NumberOf(ds) == <<MarkNumber>> \o ds \o CRLF
NegativeOf(ds) == <<MarkNumber, Minus>> \o ds \o CRLF
BlobOfLength(ds) == <<MarkBlobString>> \o ds \o CRLF \o Str_a \o CRLF
ArrayOfCount(ds) == <<MarkArray>> \o ds \o CRLF \o W_int(1)
MapOfCount(ds) == <<MarkMap>> \o ds \o CRLF \o W_simple(Str_k) \o W_int(1)
LeadingZeroCases ==
    UNION {{Case(<<>>, NumberOf(ds), T_i64), Case(<<>>, NumberOf(ds), T_u64),
            Case(<<>>, NegativeOf(ds), T_i64),
            Case(<<>>, BlobOfLength(ds), T_String), Case(<<>>, BlobOfLength(ds), T_ByteBuf),
            Case(<<>>, ArrayOfCount(ds), T_Vec(T_i64)),
            Case(<<>>, MapOfCount(ds), T_HashMap(T_String, T_i64))} : ds \in DigitStrings}

\* the decimal texts 1.5, 0.5 and 2, and the double frames with each text
\* and with '-' and the text, and the two infinities
DecimalTexts == {<<49, Dot, 53>>, <<Digit0, Dot, 53>>, <<50>>}
SignedDoubleFrames ==
    {W_double(t) : t \in DecimalTexts \cup {INF}}
    \cup {W_double(<<Minus>> \o t) : t \in DecimalTexts \cup {INF}}

\* the scalar types, and lines that are malformed scalar frames: a stray
\* byte after a number, a boolean or a null, no digits, a bare CR or LF in a
\* simple string, a blob longer than its length, a stray byte in a length
ScalarTargets ==
    {T_bool, T_i64, T_u64, T_f64, T_unit, T_String, T_ByteBuf}
    \cup {T_owned(n) : n \in WrapperNames}
    \cup {T_borrowed("SimpleString"), T_borrowed("BlobString")}
Stray == <<88>>
MalformedFrames ==
    {<<MarkNumber, 53>> \o Stray \o CRLF, <<MarkNumber>> \o CRLF,
     <<MarkNumber, Minus>> \o CRLF,
     <<MarkBool>> \o Stray \o CRLF, <<MarkBool, LetterT>> \o Stray \o CRLF,
     <<MarkDouble, 49, Dot, 53>> \o Stray \o CRLF, <<MarkDouble>> \o CRLF,
     <<MarkDouble, LetterI, LetterN>> \o Stray \o CRLF,
     <<MarkNull>> \o Stray \o CRLF,
     <<MarkSimpleString, 97, CR, 98>> \o CRLF, <<MarkSimpleString, 97, LF, 98>> \o CRLF,
     <<MarkSimpleError, 97, LF>> \o CRLF,
     <<MarkBlobString, 49>> \o CRLF \o <<97, 98>> \o CRLF,
     <<MarkBlobString, 49>> \o Stray \o CRLF \o <<97>> \o CRLF,
     <<MarkBlobError>> \o CRLF \o <<97>> \o CRLF,
     <<MarkVerbatim, 49, LF, 97>> \o CRLF}

\* aggregates and attributes that declare the largest count and hold one
\* child, no child, or a child that is such an aggregate again
HugeCount(marker, rest) == <<marker>> \o FormatUnsigned(U64_MAX) \o CRLF \o rest
HugeCountRests ==
    {<<>>, W_int(1), HugeCount(MarkArray, <<>>), HugeCount(MarkAttribute, W_simple(Str_k))}
HugeCountFrames == {HugeCount(m, rest) : m \in {MarkArray, MarkSet, MarkMap}, rest \in HugeCountRests}
HugeCountAttributes == {HugeCount(MarkAttribute, rest) : rest \in HugeCountRests}
HugeCountTargets ==
    {T_Vec(T_i64), T_Vec(T_Vec(T_i64)), T_HashMap(T_String, T_i64), T_AnySkip, T_i64,
     T_tuple(<<T_i64, T_i64>>), T_struct_k(T_i64)}

DecodeCases ==
    {Case(a, f, T) : a \in AttrFrames \cup {<<>>}, f \in ValueFrames, T \in PlainTargets}
    \cup {Case(a, f, T) : a \in AttrFrames, f \in WithAttributeFrames,
                          T \in WithAttributeTargets}
    \cup {Case(<<>>, f, T) : f \in CardinalityFrames, T \in CardinalityTargets}
    \cup {Case(<<>>, f, T_OkResponse) : f \in OkFrames}
    \cup {Case(<<>>, f, T) : f \in PushFrames, T \in PushTargets}
    \cup {Case(<<>>, f, T_enum) : f \in VariantFrames}
    \cup {Case(<<>>, f, T) : f \in ByteFrames, T \in ByteTargets}
    \cup UNION {{Case(<<>>, f, p[2]) : f \in ProperPrefixes(p[1])} : p \in TruncationPairs}
    \cup {Case(<<>>, f, T_AnySkip) : f \in AnySkipFrames}
    \cup LeadingZeroCases
    \cup {Case(<<>>, f, T) : f \in HugeCountFrames, T \in HugeCountTargets}
    \cup {Case(a, <<>>, T) : a \in HugeCountAttributes, T \in HugeCountTargets}
    \cup {PipelineCase(<<>>, f, W_int(7), T) : f \in MalformedFrames, T \in ScalarTargets}
    \cup {Case(a, <<>>, T) : a \in PipelinePrefixes, T \in {T_i64, T_String, T_Vec(T_i64)}}
    \cup {Case(<<>>, f, T_f64) : f \in SignedDoubleFrames}
    \cup {PipelineCase(a, f, t, T) :
            a \in PipelinePrefixes, f \in PipelineFrames, t \in PipelineTrailers,
            T \in PipelineTargets}

(***************************************************************************)
(* Values handed to the encoder.                                           *)
(***************************************************************************)
\* UTF-8 strings over a, CR, LF and the two-byte e-acute
Alphabet == {<<97>>, <<CR>>, <<LF>>, <<195, 169>>}
RECURSIVE Strings(_)
Strings(n) ==
    IF n = 0 THEN {<<>>}
    ELSE Strings(n - 1) \cup {s \o a : s \in Strings(n - 1), a \in Alphabet}
Utf8Strings == Strings(MaxStrLen)

Doubles ==
    {F64_normal(neg, m, e) : neg \in BOOLEAN, m \in 0..MaxMant, e \in 0..MaxScale}
    \cup {F64_INFINITY, F64_NEG_INFINITY, F64_NAN}

\* Push over a tuple, over a record and over an empty tuple
PushValues ==
    {S_Push(S_tuple(<<S_str(Str_a), S_str(Str_b), S_i64(10)>>)),
     S_Push(S_struct(<<Str_k, Str_v>>, <<S_str(Str_a), S_str(Str_b)>>)),
     S_Push(S_tuple(<<>>))}

\* WithAttribute::new(Test { a: 20 }, 30), and the same with the field a
\* itself a WithAttribute::new(InnerAttr { b: "c" }, 20)
WithAttributeValues ==
    {S_WithAttribute(S_struct(<<Str_a>>, <<S_u64(20)>>), S_u64(30)),
     S_WithAttribute(
        S_struct(<<Str_a>>,
                 <<S_WithAttribute(S_struct(<<Str_b>>, <<S_str(Str_c)>>), S_u64(20))>>),
        S_u64(30))}

\* the variants of enum E { U, N(i64), T(u64, String), S { a: u64, b: String } }
VariantValues ==
    {S_unit_variant(Name_U),
     S_newtype_variant(Name_N, S_i64(-5)),
     S_tuple_variant(Name_T, <<S_u64(12), S_str(Str_c)>>),
     S_struct_variant(Name_S, <<Str_a, Str_b>>, <<S_u64(12), S_str(Str_c)>>)}

\* values that are not strings, one of each serde category
NonStrings ==
    {S_bool(TRUE), S_i64(1), S_u64(1), S_f64(F64(FALSE, 15, 1)), S_char(Str_a),
     S_none, S_some(S_str(Str_a)), S_unit, S_unit_struct,
     S_seq(<<S_str(Str_a)>>), S_tuple(<<S_str(Str_a)>>),
     S_tuple_struct("Pair", <<S_str(Str_a)>>), S_map(<<>>),
     S_struct(<<Str_k>>, <<S_str(Str_a)>>),
     S_newtype_struct("Wrapper", S_str(Str_a)),
     S_newtype_struct(SIMPLE_STRING_TOKEN, S_str(Str_a))}
    \cup VariantValues

RespTokens ==
    {SIMPLE_ERROR_TOKEN, BLOB_ERROR_TOKEN, SIMPLE_STRING_TOKEN, BLOB_STRING_TOKEN}

\* the four tag wrappers around a string, around bytes and around each
\* value that is not a string
TaggedValues ==
    {S_newtype_struct(tag, x) :
        tag \in RespTokens, x \in NonStrings \cup {S_str(Str_a), S_bytes(Str_b)}}

EncodeValues ==
    {S_i64(i) : i \in I64_MIN..I64_MAX}
    \cup {S_f64(f) : f \in Doubles}
    \cup {S_BlobString(s) : s \in Utf8Strings}
    \cup {S_SimpleString(s) : s \in Utf8Strings}
    \cup {S_str(s) : s \in Utf8Strings}
    \cup PushValues \cup WithAttributeValues \cup VariantValues
    \cup {S_bytes(b) : b \in ByteSlices}
    \cup TaggedValues

\* the types an encoded value is decoded back as
RoundTripTargets(x) ==
    CASE x.c = "i64" -> {T_i64}
      [] x.c = "f64" -> {T_f64}
      [] x.c = "str" -> {T_owned("SimpleString")}
      [] x.c = "newtype_struct" /\ x.name = SIMPLE_STRING_TOKEN -> {T_owned("SimpleString")}
      [] x.c = "newtype_struct" /\ x.name = BLOB_STRING_TOKEN -> {T_owned("BlobString")}
      [] x.c \in {"unit_variant", "newtype_variant", "tuple_variant", "struct_variant"} ->
            {T_enum}
      [] OTHER -> {}

(***************************************************************************)
(* The calls.  A call constructs its own Deserializer / Serializer and    *)
(* shares nothing with the calls before it, so a behaviour is one call on  *)
(* the fresh state, or one serialize followed by a decode of its output.   *)
(***************************************************************************)
NoRes == [ok |-> FALSE, d |-> Deserializer_from_slice(<<>>), v |-> NoVal, err |-> NoErr]
NoOut == SerOk(<<>>)

Init ==
    /\ op = "init"
    /\ attr = <<>>
    /\ frame = <<>>
    /\ trailing = <<>>
    /\ target = T_unit
    /\ res = NoRes
    /\ value = S_unit
    /\ out = NoOut

\* from_slice(input): T over the buffer attr \o frame \o trailing
FromSlice ==
    /\ op = "init"
    /\ \E c \in DecodeCases :
        /\ op' = "from_slice"
        /\ attr' = c.attr
        /\ frame' = c.frame
        /\ trailing' = c.trailing
        /\ target' = c.T
        /\ res' = from_slice(c.attr \o c.frame \o c.trailing, c.T)
        /\ value' = S_unit
        /\ out' = NoOut

\* from_read(rd): T over a source that yields attr \o frame \o trailing
FromRead ==
    /\ op = "init"
    /\ \E c \in DecodeCases :
        /\ op' = "from_read"
        /\ attr' = c.attr
        /\ frame' = c.frame
        /\ trailing' = c.trailing
        /\ target' = c.T
        /\ res' = from_read(c.attr \o c.frame \o c.trailing, c.T)
        /\ value' = S_unit
        /\ out' = NoOut

\* value.serialize(&mut from_write(Vec::new()))
SerializeToVec ==
    /\ op = "init"
    /\ \E x \in EncodeValues :
        /\ op' = "serialize"
        /\ value' = x
        /\ out' = Serialize(from_write(<<>>), x)
        /\ attr' = <<>>
        /\ frame' = <<>>
        /\ trailing' = <<>>
        /\ target' = T_unit
        /\ res' = NoRes

\* from_slice over the bytes the Serializer has just written
RoundTripSlice ==
    /\ op = "serialize"
    /\ out.ok
    /\ \E T \in RoundTripTargets(value) :
        /\ op' = "round_trip_slice"
        /\ attr' = <<>>
        /\ frame' = out.bytes
        /\ trailing' = <<>>
        /\ target' = T
        /\ res' = from_slice(out.bytes, T)
        /\ UNCHANGED <<value, out>>

\* from_read over the bytes the Serializer has just written
RoundTripRead ==
    /\ op = "serialize"
    /\ out.ok
    /\ \E T \in RoundTripTargets(value) :
        /\ op' = "round_trip_read"
        /\ attr' = <<>>
        /\ frame' = out.bytes
        /\ trailing' = <<>>
        /\ target' = T
        /\ res' = from_read(out.bytes, T)
        /\ UNCHANGED <<value, out>>

Next == FromSlice \/ FromRead \/ SerializeToVec \/ RoundTripSlice \/ RoundTripRead

Spec == Init /\ [][Next]_vars

input == attr \o frame \o trailing
IsDecode == op \in {"from_slice", "from_read"}
IsRoundTrip == op \in {"round_trip_slice", "round_trip_read"}

(***************************************************************************)
(* Properties.                                                             *)
(***************************************************************************)
\* the reader of the call the state records
Decode(bytes, T) ==
    IF op \in {"from_slice", "round_trip_slice"} THEN from_slice(bytes, T)
    ELSE from_read(bytes, T)

SameResult(r1, r2) ==
    /\ r1.ok = r2.ok
    /\ r1.ok => r1.v = r2.v
    /\ ~r1.ok => r1.err = r2.err

\* the map frame with the pairs of attribute frame a
AttrAsMap(a) == <<MarkMap>> \o Tail(a)

\* C1: attribute transparency.  For every well-formed value frame V, every
\* well-formed attribute frame A and every target type T that does not
\* request attributes (the tag wrappers included), decoding A followed by V
\* as T returns the same result as decoding V alone as T.
C1_AttributeTransparency ==
    (IsDecode /\ attr \in AttrFrames /\ frame \in ValueFrames /\ target \in PlainTargets)
        => SameResult(res, Decode(frame, target))

\* C2: attribute capture.  Decoding A followed by V as WithAttribute<T_A, T_V>
\* succeeds exactly when decoding A's map as T_A and V alone as T_V both
\* succeed, and then the attribute component equals the former and the value
\* component the latter; also for an aggregate V whose children carry
\* attribute prefixes.
C2_AttributeCapture ==
    (IsDecode /\ attr \in AttrFrames /\ target \in WithAttributeTargets) =>
        LET ra == Decode(AttrAsMap(attr), target.attr)
            rv == Decode(frame, target.val)
        IN  /\ res.ok <=> (ra.ok /\ rv.ok)
            /\ res.ok => (res.v.attr = ra.v /\ res.v.value = rv.v)

\* C3: nested attributes.  When the value x of a key of the captured attribute
\* map is prefixed by a further attribute frame i: a plain field type F gets
\* x decoded as F (i is skipped); a field type WithAttribute<A2, V2> gets i
\* captured as A2 and x as V2; the outer value is then read from the bytes
\* after the whole outer attribute.
C3_NestedAttributes ==
    \A i \in InnerAttrs, x \in InnerValues :
        (IsDecode /\ attr = NestedAttr(i, x) /\ target \in WithAttributeTargets
            /\ target.attr.k = "struct") =>
            LET F == target.attr.of[1]
                rv == Decode(frame, target.val)
                field == IF F.k = "WithAttribute"
                         THEN LET ra2 == Decode(AttrAsMap(i), F.attr)
                                  rv2 == Decode(x, F.val)
                              IN  [ok |-> ra2.ok /\ rv2.ok,
                                   v |-> V_WithAttribute(ra2.v, rv2.v)]
                         ELSE LET rx == Decode(x, F) IN [ok |-> rx.ok, v |-> rx.v]
            IN  (field.ok /\ rv.ok) =>
                    /\ res.ok
                    /\ res.v = V_WithAttribute(V_struct(<<field.v>>), rv.v)
                    /\ op = "from_slice" => consumed_bytes(res.d) = Len(input)

\* C4: integer round-trip.  For every signed integer v of the modelled width
\* other than the minimum, serializing v writes a ':' frame and decoding it as i64
\* returns v (the maximum, its negation, 0 and every negative value included).
C4_IntegerRoundTrip ==
    (IsRoundTrip /\ value.c = "i64" /\ value.i # I64_MIN) =>
        /\ Head(frame) = MarkNumber
        /\ res.ok
        /\ res.v = V_int(value.i)

\* C4 witness: the negation of the maximum has made the round trip
C4_Witness ==
    IsRoundTrip /\ value = S_i64(-I64_MAX) /\ res.ok /\ res.v = V_int(-I64_MAX)

\* C5: double round-trip.  For every finite double (positive, negative, zero)
\* and both infinities, serializing v writes a ',' frame and decoding it as f64
\* returns a value equal to v.
C5_DoubleRoundTrip ==
    (IsRoundTrip /\ value.c = "f64" /\ value.f.c # "nan") =>
        /\ Head(frame) = MarkDouble
        /\ res.ok
        /\ F64_eq(res.v, value.f)

IsBlobStringValue(x) == x.c = "newtype_struct" /\ x.name = BLOB_STRING_TOKEN

\* C6: BlobString round-trip.  For every UTF-8 string s (empty, multi-byte,
\* with CR, LF or CR-LF), serializing BlobString(s) writes '$' byte-length
\* CRLF s CRLF, and decoding it as BlobString returns s with the whole frame
\* consumed.
C6_BlobStringRoundTrip ==
    (IsRoundTrip /\ IsBlobStringValue(value)) =>
        LET s == value.x.s IN
        /\ frame = <<MarkBlobString>> \o FormatUnsigned(Len(s)) \o CRLF \o s \o CRLF
        /\ res.ok
        /\ res.v = V_wrap("BlobString", s, "Owned")
        /\ op = "round_trip_slice" => consumed_bytes(res.d) = Len(frame)

\* C6 witness: the string CR LF has made the round trip as a BlobString
C6_Witness ==
    /\ op = "round_trip_slice"
    /\ value = S_BlobString(CRLF)
    /\ res.ok
    /\ res.v.s = CRLF
    /\ consumed_bytes(res.d) = Len(frame)

IsSimpleStringValue(x) ==
    x.c = "str" \/ (x.c = "newtype_struct" /\ x.name = SIMPLE_STRING_TOKEN)
SimpleStringText(x) == IF x.c = "str" THEN x.s ELSE x.x.s
HasCrOrLf(s) == \E i \in 1..Len(s) : s[i] \in {CR, LF}

\* C7 as stated: for every UTF-8 string s, serializing SimpleString(s) or s
\* writes '+' s CRLF and decoding that as SimpleString returns s.
C7_SimpleStringRoundTrip_AnyString ==
    (IsRoundTrip /\ IsSimpleStringValue(value)) =>
        LET s == SimpleStringText(value) IN
        /\ frame = <<MarkSimpleString>> \o s \o CRLF
        /\ res.ok
        /\ res.v = V_wrap("SimpleString", s, "Owned")

\* C7: SimpleString round-trip.  For every UTF-8 string s, serializing
\* SimpleString(s) or s writes '+' s CRLF; when s holds neither CR nor LF, decoding
\* that as SimpleString returns s.
C7_SimpleStringRoundTrip ==
    (IsRoundTrip /\ IsSimpleStringValue(value)) =>
        LET s == SimpleStringText(value) IN
        /\ frame = <<MarkSimpleString>> \o s \o CRLF
        /\ ~HasCrOrLf(s) => (res.ok /\ res.v = V_wrap("SimpleString", s, "Owned"))

\* C7 witness: a two-byte character has made the round trip as a SimpleString
C7_Witness ==
    /\ IsRoundTrip
    /\ value = S_SimpleString(<<195, 169>>)
    /\ res.ok
    /\ res.v.s = <<195, 169>>

IsReadEvent(e) == e.ev \in {"read_slice", "read_slice_until"}
IsStringTarget(T) == T.k \in {"owned", "borrowed", "String"}

\* C8: zero-copy invariant.  With the slice reader every read_slice /
\* read_slice_until result is Borrowed and is a range [from, to) inside the
\* input, every string or byte value is delivered through the borrowed
\* visitor method, and a decoded string is the bytes of that range; with
\* the stream reader every such result is Copied.
C8_ZeroCopy ==
    (IsDecode \/ IsRoundTrip) =>
        LET log == res.d.log IN
        /\ \A n \in 1..Len(log) :
            IF res.d.kind = "slice"
            THEN /\ log[n].variant = "Borrowed"
                 /\ 0 <= log[n].from /\ log[n].from <= log[n].to
                 /\ log[n].to <= Len(input)
                 /\ ~IsReadEvent(log[n]) =>
                        log[n].ev \in {"visit_borrowed_str", "visit_borrowed_bytes"}
            ELSE /\ log[n].variant = "Copied"
                 /\ ~IsReadEvent(log[n]) => log[n].ev \in {"visit_str", "visit_bytes"}
        /\ (res.d.kind = "slice" /\ res.ok /\ IsStringTarget(target)) =>
            /\ log # <<>>
            /\ res.v.s = SubSeq(input, log[Len(log)].from + 1, log[Len(log)].to)
            /\ target.k = "borrowed" => res.v.cow = "Borrowed"

\* C8 witness: a blob string decoded from a slice into the borrowed wrapper
C8_Witness ==
    /\ op = "from_slice"
    /\ target = T_borrowed("BlobString")
    /\ frame = W_blob(Str_a)
    /\ res.ok
    /\ res.v = V_wrap("BlobString", Str_a, "Borrowed")
    /\ Len(res.d.log) = 2
    /\ res.d.log[1].ev = "read_slice"

\* C9: aggregate cardinality.  Decoding a '*N' or '~N' frame as a tuple of
\* arity M is an error whenever M # N, decoding an input that holds fewer
\* than N children is an error, and a successful decode has consumed
\* exactly N children.
C9_AggregateCardinality ==
    \A m \in {MarkArray, MarkSet}, count \in 0..MaxCount, have \in 0..MaxCount :
        (IsDecode /\ attr = <<>> /\ frame = CountedFrame(m, count, have)
            /\ target \in CardinalityTargets) =>
            /\ (target.k = "tuple" /\ Len(target.of) # count) => ~res.ok
            /\ have < count => ~res.ok
            /\ (res.ok /\ op = "from_slice") =>
                    consumed_bytes(res.d) = Len(CountedFrame(m, count, count))

\* C10: OkResponse decoding succeeds if and only if the input is a '+'
\* frame whose text is OK in any ASCII case.
C10_OkResponse ==
    (IsDecode /\ attr = <<>> /\ target = T_OkResponse) =>
        (res.ok <=> frame \in {W_simple(s) :
                        s \in {Str_OK, <<111, 107>>, <<79, 107>>, <<111, 75>>}})

\* the marker a tag wrapper accepts and the name its error gives
WrapperMarker(name) ==
    CASE name = "SimpleError" -> MarkSimpleError
      [] name = "BlobError" -> MarkBlobError
      [] name = "SimpleString" -> MarkSimpleString
      [] name = "BlobString" -> MarkBlobString
WrapperExpected(name) ==
    CASE name = "SimpleError" -> "simple error"
      [] name = "BlobError" -> "blob error"
      [] name = "SimpleString" -> "simple string"
      [] name = "BlobString" -> "blob string"

\* bytes of the source a decoder has taken: the cursor, less the byte a
\* ReadReader holds peeked
Taken(d) == d.pos - Len(d.ch)

\* C11: typed wrapper decode.  With target SimpleString, BlobString,
\* SimpleError or BlobError a decode succeeds only on the marker '+', '$',
\* '-' or '!' of the target; on any other first byte the result is the
\* expected-marker error that names the target and no byte has been taken.
C11_TypedWrapperDecode ==
    (IsDecode /\ target.k \in {"owned", "borrowed"} /\ input # <<>>) =>
        /\ res.ok => input[1] = WrapperMarker(target.name)
        /\ input[1] # WrapperMarker(target.name) =>
            /\ ~res.ok
            /\ res.err = Error_expected_marker(WrapperExpected(target.name))
            /\ Taken(res.d) = 0

C11_Witness ==
    /\ op = "from_slice" /\ attr = <<>> /\ frame = W_simple(Str_a)
    /\ target = T_owned("BlobString")
    /\ res.err = Error_expected_marker("blob string")
    /\ consumed_bytes(res.d) = 0


\* the frames the encoder writes for the children xs, one by one
Encoded(xs) == [i \in 1..Len(xs) |-> Serialize(from_write(<<>>), xs[i]).bytes]

IsPushValue == op = "serialize" /\ value.c = "newtype_struct" /\ value.name = PUSH_TOKEN

\* C12: encoding Push(p), p a tuple or a record of n elements, writes
\* '>' n CR-LF and then the n encoded children (for a record the field
\* values only), never an array or a map header
C12_PushEncoding ==
    IsPushValue =>
        /\ out.ok
        /\ out.bytes = W_agg(MarkPush, Len(value.x.xs), Encoded(value.x.xs))

\* C13: a push frame '>2' with two simple-string children decodes as
\* Push<(String, String)> to the two children in order, and as Push of a
\* record of two String fields to the children assigned to the fields in
\* order
C13_PushDecoding ==
    (IsDecode /\ attr = <<>>
        /\ frame = W_agg(MarkPush, 2, <<W_simple(Str_a), W_simple(Str_b)>>)
        /\ target \in {T_Push(T_tuple(<<T_String, T_String>>)),
                       T_Push(T_struct(<<Str_k, Str_v>>, <<T_String, T_String>>))}) =>
        /\ res.ok
        /\ res.v.t = "Push"
        /\ target.of.k = "tuple" => /\ res.v.x.t = "seq"
                                    /\ res.v.x.xs[1].s = Str_a
                                    /\ res.v.x.xs[2].s = Str_b
        /\ target.of.k = "struct" => /\ res.v.x.t = "struct"
                                     /\ res.v.x.fs[1].s = Str_a
                                     /\ res.v.x.fs[2].s = Str_b

IsWithAttributeValue ==
    op = "serialize" /\ value.c = "newtype_struct" /\ value.name = WITH_ATTRIBUTE_TOKEN

\* C14: encoding WithAttribute::new(attr, value) writes an attribute frame,
\* '|' count and the key/value children of attr, and then the encoded value,
\* with no array header around the two: the record {a: 20} with value 30 is
\* '|1 +a :20 :30', and with the field a itself a WithAttribute of the record
\* {b: "c"} and 20 it is '|1 +a |1 +b +c :20 :30'
C14_WithAttributeEncoding ==
    /\ (IsWithAttributeValue
            /\ value = S_WithAttribute(S_struct(<<Str_a>>, <<S_u64(20)>>), S_u64(30))) =>
            /\ out.ok
            /\ out.bytes = W_attr(<<W_simple(Str_a), W_int(20)>>) \o W_int(30)
    /\ (IsWithAttributeValue
            /\ value # S_WithAttribute(S_struct(<<Str_a>>, <<S_u64(20)>>), S_u64(30))) =>
            /\ out.ok
            /\ out.bytes = W_attr(<<W_simple(Str_a), Attr_bc \o W_int(20)>>) \o W_int(30)
    /\ IsWithAttributeValue => out.bytes[1] = MarkAttribute

IsVariantValue ==
    value.c \in {"unit_variant", "newtype_variant", "tuple_variant", "struct_variant"}

\* C15: a one-entry map frame whose key is a variant name and whose value is
\* the payload of that variant, decoded as the enum, returns the variant;
\* and a frame the encoder wrote for a variant decodes as the enum to a
\* value or to an error, the call is never aborted
C15_VariantDecoding ==
    /\ (IsDecode /\ target = T_enum /\ frame \in VariantFrames) => res.ok
    /\ (IsRoundTrip /\ IsVariantValue /\ target = T_enum) => res.err.kind # "panic"

\* the one-entry map '%1' +variant and the payload frame
W_variant(variant, payload) == W_map(<<W_simple(variant), payload>>)

\* C16: every enum variant is written as a one-entry map: '%1', the variant
\* name as a simple string, and the payload, which is '_' for a unit
\* variant, the frame of the inner value for a newtype variant, an array '*n'
\* of the n fields for a tuple variant, and a map '%n' of the field names
\* and values in declaration order for a struct variant
C16_VariantEncoding ==
    (op = "serialize" /\ IsVariantValue) =>
        /\ out.ok
        /\ value.c = "unit_variant" => out.bytes = W_variant(value.variant, W_null)
        /\ value.c = "newtype_variant" =>
                out.bytes = W_variant(value.variant,
                                      Serialize(from_write(<<>>), value.x).bytes)
        /\ value.c = "tuple_variant" =>
                out.bytes = W_variant(value.variant, W_array(Encoded(value.xs)))
        /\ value.c = "struct_variant" =>
                out.bytes = W_variant(value.variant,
                    W_map(Interleave([i \in 1..Len(value.names) |-> W_simple(value.names[i])],
                                     Encoded(value.xs))))

C16_Witness ==
    /\ op = "serialize"
    /\ value = S_struct_variant(Name_S, <<Str_a, Str_b>>, <<S_u64(12), S_str(Str_c)>>)
    /\ out.ok
    /\ out.bytes = W_variant(Name_S,
            W_map(<<W_simple(Str_a), W_int(12), W_simple(Str_b), W_simple(Str_c)>>))

\* the text between the marker and the final CR-LF of the bytes written
WrittenText(bytes) == SubSeq(bytes, 2, Len(bytes) - 2)

\* C17: encoding a NaN returns the NaN error and writes no byte; the two
\* infinities are written as ',inf' and ',-inf'; every other double is
\* written as ',' and a decimal text (sign, digits, point) that denotes the
\* value, ended by CR-LF
C17_NanRefusal ==
    (op = "serialize" /\ value.c = "f64") =>
        /\ value.f.c = "nan" =>
            /\ ~out.ok
            /\ out.err = Error_nan
            /\ out.bytes = <<>>
        /\ value.f = F64_INFINITY => out.ok /\ out.bytes = W_double(INF)
        /\ value.f = F64_NEG_INFINITY => out.ok /\ out.bytes = W_double(<<Minus>> \o INF)
        /\ value.f.c = "fin" =>
            /\ out.ok
            /\ out.bytes = W_double(WrittenText(out.bytes))
            /\ \A i \in 1..Len(WrittenText(out.bytes)) :
                    \/ IsDigit(WrittenText(out.bytes)[i])
                    \/ WrittenText(out.bytes)[i] \in {Minus, Dot}
            /\ ParseF64(WrittenText(out.bytes)).ok
            /\ F64_eq(ParseF64(WrittenText(out.bytes)).v, value.f)

C17_Witness ==
    /\ op = "serialize"
    /\ value = S_f64(F64_NAN)
    /\ ~out.ok
    /\ out.err = Error_nan
    /\ out.bytes = <<>>

\* the decoder is asked for a string / for bytes, and the frame is a blob or
\* a simple string with the payload b
AsksForString == target.k \in {"String", "owned", "borrowed"}
CarriesPayload(b) ==
    /\ IsDecode /\ attr = <<>>
    /\ \/ frame = W_blob(b) /\ (target.k \in {"owned", "borrowed"} => target.name = "BlobString")
       \/ frame = W_simple(b) /\ (target.k \in {"owned", "borrowed"} => target.name = "SimpleString")

\* the decoder half of C18: asked for a string, a payload that is not UTF-8
\* fails with the invalid-UTF-8 error that carries the length of the valid
\* prefix; asked for bytes, every payload is accepted
Utf8PolicyOfDecoder ==
    \A b \in ByteSlices :
        /\ (CarriesPayload(b) /\ AsksForString /\ b \in {<<255>>, <<195>>}) =>
                ~res.ok /\ res.err = Error_utf8(0)
        /\ (CarriesPayload(b) /\ AsksForString /\ b = <<97, 255>>) =>
                ~res.ok /\ res.err = Error_utf8(1)
        /\ (CarriesPayload(b) /\ target = T_ByteBuf) =>
                res.ok /\ res.v.t = "bytes" /\ res.v.s = b

\* the encoder half of C18: every byte slice, UTF-8 or not, is written as a
\* blob frame '$' len CR-LF bytes CR-LF
Utf8PolicyOfEncoder ==
    (op = "serialize" /\ value.c = "bytes") => out.ok /\ out.bytes = W_blob(value.s)

\* C18: the UTF-8 policy in both directions, the decoder half and the encoder
\* half together
C18_Utf8Policy == Utf8PolicyOfDecoder /\ Utf8PolicyOfEncoder

IsTaggedValue == op = "serialize" /\ value.c = "newtype_struct" /\ value.name \in RespTokens

\* the one frame of the text s with the marker of the tag
W_tagged(tag, s) ==
    CASE tag = SIMPLE_STRING_TOKEN -> W_simple(s)
      [] tag = BLOB_STRING_TOKEN -> W_blob(s)
      [] tag = SIMPLE_ERROR_TOKEN -> W_error(s)
      [] tag = BLOB_ERROR_TOKEN -> W_blob_error(s)

Borrows(d) == SelectSeq(d.log, LAMBDA e : e.variant = "Borrowed")

\* the cursor of the slice reader stays inside the buffer and never moves
\* back: every slice handed out starts at or after the slices before it and
\* ends at or before the cursor the call returns with
CursorAdvances(d) ==
    /\ 0 <= consumed_bytes(d) /\ consumed_bytes(d) <= Len(d.src)
    /\ \A i \in 1..Len(Borrows(d)) :
        /\ 0 <= Borrows(d)[i].from
        /\ Borrows(d)[i].from <= Borrows(d)[i].to
        /\ Borrows(d)[i].to <= consumed_bytes(d)
        /\ \A j \in 1..Len(Borrows(d)) :
            i < j => /\ Borrows(d)[i].from <= Borrows(d)[j].from
                     /\ Borrows(d)[i].to <= Borrows(d)[j].to

\* a decode by the slice reader of a well-formed frame that attribute
\* frames may precede and any bytes may follow
IsPipelineDecode ==
    /\ op = "from_slice"
    /\ attr \in PipelinePrefixes \cup AttrFrames
    /\ frame \in PipelineFrames

\* C20: after a successful decode of one value by the slice reader from a
\* buffer that holds attribute frames, a well-formed frame F and any
\* trailing bytes, consumed_bytes is the length of the attribute frames plus
\* the length of F; and consumed_bytes stays between 0 and the length of the
\* buffer and never decreases
C20_Pipelining ==
    /\ (IsPipelineDecode /\ res.ok) => consumed_bytes(res.d) = Len(attr) + Len(frame)
    /\ op = "from_slice" => CursorAdvances(res.d)

RECURSIVE Unborrowed(_)
\* the value with every Cow taken as owned: the == of Cow compares the text
Unborrowed(v) ==
    CASE v.t \in {"str", "bytes", "wrap"} -> [v EXCEPT !.cow = "Owned"]
      [] v.t = "Some" -> [v EXCEPT !.x = Unborrowed(v.x)]
      [] v.t = "Push" -> [v EXCEPT !.x = Unborrowed(v.x)]
      [] v.t = "seq" -> [v EXCEPT !.xs = [i \in 1..Len(v.xs) |-> Unborrowed(v.xs[i])]]
      [] v.t = "struct" -> [v EXCEPT !.fs = [i \in 1..Len(v.fs) |-> Unborrowed(v.fs[i])]]
      [] v.t = "map" ->
            [v EXCEPT !.kv = [i \in 1..Len(v.kv) |->
                                <<Unborrowed(v.kv[i][1]), Unborrowed(v.kv[i][2])>>]]
      [] v.t = "WithAttribute" ->
            [v EXCEPT !.attr = Unborrowed(v.attr), !.value = Unborrowed(v.value)]
      [] OTHER -> v

\* both succeed with equal values, or both fail with the same kind of error
SameOutcome(r1, r2) ==
    /\ r1.ok = r2.ok
    /\ r1.ok => Unborrowed(r1.v) = Unborrowed(r2.v)
    /\ ~r1.ok => r1.err.kind = r2.err.kind

\* C21: reader equivalence.  For every input and every target type, the
\* decode through the slice reader and the decode through the stream reader
\* have the same outcome: both succeed with equal values, or both fail with
\* the same kind of error
C21_ReaderEquivalence ==
    op = "from_slice" => SameOutcome(res, from_read(input, target))

\* C22: AnySkip swallows one value of any shape.  Every well-formed frame,
\* of any kind and nesting, decodes as AnySkip, and the slice reader has
\* then consumed exactly the bytes of the frame; so an attribute frame whose
\* values are such frames is skipped in front of a value
C22_AnySkip ==
    /\ (IsDecode /\ attr = <<>> /\ trailing = <<>> /\ target = T_AnySkip
            /\ frame \in AnySkipFrames) =>
            /\ res.ok
            /\ op = "from_slice" => consumed_bytes(res.d) = Len(frame)
    /\ (IsDecode /\ attr \in AttrFrames /\ frame = W_int(5) /\ target = T_i64) =>
            /\ res.ok
            /\ res.v = V_int(5)

\* the call decodes a frame with the digits ds as its integer, length or count
ReadsDigits(ds) ==
    /\ IsDecode /\ attr = <<>>
    /\ \/ frame \in {NumberOf(ds), NegativeOf(ds)} /\ target \in {T_i64, T_u64}
       \/ frame = BlobOfLength(ds) /\ target \in {T_String, T_ByteBuf}
       \/ frame = ArrayOfCount(ds) /\ target = T_Vec(T_i64)
       \/ frame = MapOfCount(ds) /\ target = T_HashMap(T_String, T_i64)

\* C23: leading-zero rejection.  An integer, a blob length or an aggregate
\* count whose digits start with 0 and go on with another digit is refused
\* with the unexpected-value error; the single digit 0 is read as zero, for
\* a signed integer also after '-'
C23_LeadingZero ==
    /\ \A ds \in {Digits_01, Digits_00} :
        ReadsDigits(ds) =>
            /\ ~res.ok
            /\ res.err.kind = Error_unexpected_value("number after 0").kind
    /\ (IsDecode /\ frame \in {NumberOf(Digits_0), NegativeOf(Digits_0)}
            /\ target = T_i64) =>
            res.ok /\ res.v = V_int(0)
    /\ (IsDecode /\ frame = NumberOf(Digits_0) /\ target = T_u64) =>
            res.ok /\ res.v = V_int(0)
    /\ (IsDecode /\ frame = ArrayOfCount(Digits_0) /\ target = T_Vec(T_i64)) =>
            res.ok /\ res.v = V_seq(<<>>)
    /\ (IsDecode /\ frame = MapOfCount(Digits_0)
            /\ target = T_HashMap(T_String, T_i64)) =>
            res.ok /\ res.v = V_map(<<>>)

C23_Witness ==
    /\ op = "from_slice"
    /\ frame = BlobOfLength(Digits_01)
    /\ target = T_String
    /\ res.err = Error_unexpected_value("number after 0")

\* C24: negative doubles.  A double frame whose text is '-' and a finite
\* decimal d decodes to the negation of the value the frame with the text d
\* decodes to, as ',-inf' decodes to negative infinity
C24_NegativeDoubles ==
    /\ \A t \in DecimalTexts :
        (IsDecode /\ attr = <<>> /\ target = T_f64
                /\ frame = W_double(<<Minus>> \o t)) =>
            /\ res.ok
            /\ F64_eq(res.v, F64_neg(Decode(W_double(t), T_f64).v))
    /\ (IsDecode /\ attr = <<>> /\ target = T_f64
            /\ frame = W_double(<<Minus>> \o INF)) =>
            res.ok /\ res.v = F64_NEG_INFINITY

\* types whose decode starts with peek_skip_attribute
SkippingTargets == {T_bool, T_i64, T_u64, T_f64, T_String, T_ByteBuf, T_Vec(T_i64)}

\* C25: attribute-skip loop.  With skip-attribute on, one attribute frame
\* and two attribute frames in a row in front of a value are all skipped and
\* the value is decoded as if it stood alone; when the input ends after the
\* attribute frames the result is end-of-input
C25_AttributeSkipLoop ==
    /\ (IsDecode /\ attr \in {Attr_kv, Attr_kv \o Attr_bc} /\ frame # <<>>
            /\ target \in SkippingTargets) =>
            SameResult(res, Decode(frame \o trailing, target))
    /\ (IsDecode /\ attr \in {Attr_kv, Attr_kv \o Attr_bc} /\ frame = <<>>
            /\ trailing = <<>> /\ target \in SkippingTargets) =>
            ~res.ok /\ res.err = Error_eof

\* the decoder of the call the state records, before the call, with the
\* skip-attribute flag set to b
DecoderWithFlag(b) ==
    [(IF res.d.kind = "slice" THEN Deserializer_from_slice(input)
      ELSE Deserializer_from_read(input)) EXCEPT !.skip_attribute = b]

\* C26: skip-attribute flag discipline.  The flag of a fresh decoder is on;
\* every attribute capture and every attribute-as-map decode puts the flag
\* back as it found it, on success and on failure, so after a top-level
\* decode call the flag is what it was before the call, whatever the
\* nesting and the outcome, from either value of the flag
C26_FlagDiscipline ==
    /\ Deserializer_from_slice(input).skip_attribute
    /\ Deserializer_from_read(input).skip_attribute
    /\ (IsDecode \/ IsRoundTrip) =>
        /\ res.d.skip_attribute = TRUE
        /\ \A b \in BOOLEAN :
            Deserialize(target, DecoderWithFlag(b)).d.skip_attribute = b

\* a capture that fails in its value, after the attribute has been taken
C26_Witness ==
    /\ op = "from_slice"
    /\ target.k = "WithAttribute"
    /\ target.attr.k = "struct"
    /\ target.attr.of[1].k = "WithAttribute"
    /\ ~res.ok
    /\ consumed_bytes(res.d) > Len(attr)
    /\ res.d.skip_attribute = TRUE

\* the call decodes a proper prefix of a well-formed frame as a type the
\* whole frame decodes as
IsTruncated ==
    /\ IsDecode /\ attr = <<>> /\ trailing = <<>>
    /\ \E p \in TruncationPairs : target = p[2] /\ frame \in ProperPrefixes(p[1])

\* C27: truncated input is end-of-input.  Every proper prefix of a
\* well-formed frame, cut anywhere, fails to decode with the unexpected
\* end-of-input error, with either reader
C27_TruncatedIsEof == IsTruncated => (~res.ok /\ res.err = Error_eof)

IsVisitEvent(e) ==
    e.ev \in {"visit_str", "visit_borrowed_str", "visit_bytes", "visit_borrowed_bytes"}

\* the slice reader has just consumed a CR-LF
CursorAfterCrlf(d) ==
    /\ consumed_bytes(d) >= 2
    /\ SubSeq(d.src, consumed_bytes(d) - 1, consumed_bytes(d)) = CRLF

\* C28: no partial delivery for scalars.  For a scalar type the visitor is
\* called only after the whole frame with its final CR-LF has been read:
\* a successful call leaves the slice cursor right after a CR-LF, with the
\* text handed to the visitor ending two bytes before it; a call on a
\* malformed or truncated frame returns the error, no visitor method has
\* been called and no value is built, and the slice cursor has not passed
\* the end of the malformed line
C28_NoPartialDelivery ==
    (IsDecode /\ attr = <<>> /\ target \in ScalarTargets) =>
        /\ res.ok =>
            /\ res.d.kind = "slice" => CursorAfterCrlf(res.d)
            /\ \A i \in 1..Len(res.d.log) :
                (res.d.kind = "slice" /\ IsVisitEvent(res.d.log[i])) =>
                    res.d.log[i].to + 2 = consumed_bytes(res.d)
        /\ ~res.ok =>
            /\ res.v = NoVal
            /\ res.err # NoErr
            /\ \A i \in 1..Len(res.d.log) : ~IsVisitEvent(res.d.log[i])
            /\ res.d.kind = "slice" => consumed_bytes(res.d) <= Len(frame)
        /\ (frame \in MalformedFrames \/ IsTruncated) => ~res.ok

C28_Witness ==
    /\ op = "from_slice"
    /\ frame = <<MarkNumber, 53>> \o Stray \o CRLF
    /\ trailing = W_int(7)
    /\ target = T_i64
    /\ ~res.ok
    /\ res.v = NoVal
    /\ consumed_bytes(res.d) = 2

\* the bytes the stream reader has pulled from the caller's source
Pulled(d) == d.pos

\* C29: the stream reader does not over-read.  When a value is decoded from
\* a stream that holds a well-formed frame and further bytes, the decoder
\* has pulled exactly the bytes of the frame from the source when it
\* returns, and no byte after the final LF
C29_NoOverRead ==
    (op = "from_read" /\ attr = <<>> /\ frame \in PipelineFrames /\ trailing # <<>>
        /\ res.ok) =>
        Pulled(res.d) = Len(frame)

\* the call has returned Ok(value) or Err(error)
Returned(r) == r.ok \/ (r.err # NoErr /\ r.err.kind # "panic")

\* C30: decoding terminates.  For every input, well-formed or not, with any
\* declared count and any nesting of attributes, and for every type, the
\* decode call returns a value or an error; a count that declares more
\* children than the input holds ends in an error when the input runs out
C30_Terminates ==
    /\ (IsDecode \/ IsRoundTrip) => Returned(res)
    /\ (IsDecode /\ (frame \in HugeCountFrames \/ attr \in HugeCountAttributes)) => ~res.ok
=============================================================================
